---- MODULE Spec2Model ----
(***************************************************************************)
(* A model of the 4ZeroBox board driver (src/fourzerobox.py): the ADC      *)
(* channel configuration store, the acquisition of raw samples under the   *)
(* I2C bus lock, the conversion pipelines and the lock-guarded GPIO        *)
(* expander operations.                                                    *)
(*                                                                         *)
(* Numbers.  Python floats are modelled as exact rationals [n, d] in       *)
(* lowest terms with d > 0; voltages of VREF_ADS1015 are kept in           *)
(* millivolts so that the table is integral.  Rounding of IEEE doubles is  *)
(* not modelled.  Python's None and raised exceptions are values of the    *)
(* same record shape, told apart by the field k.                           *)
(***************************************************************************)
EXTENDS Integers, Sequences, FiniteSets, TLC

----------------------------------------------------------------------------
(* Values *)

Abs(x) == IF x < 0 THEN -x ELSE x

RECURSIVE GCD(_, _)
GCD(a, b) == IF b = 0 THEN a ELSE GCD(b, a % b)

\* the rational n/d (d # 0) in lowest terms, with a positive denominator
Rat(n, d) ==
    LET g == GCD(Abs(n), Abs(d))
        s == IF d < 0 THEN -1 ELSE 1
    IN  [k |-> "num", n |-> s * (n \div g), d |-> s * (d \div g)]

Num(i) == [k |-> "num", n |-> i, d |-> 1]
NoneV == [k |-> "None", n |-> 0, d |-> 1]
Raise(e) == [k |-> e, n |-> 0, d |-> 1]
Str(x) == [k |-> x, n |-> 0, d |-> 1]
IsNum(v) == v.k = "num"

\* arithmetic with the common factors taken out first, to keep the
\* intermediate products small
RAdd(a, b) ==
    LET g == GCD(a.d, b.d)
    IN  Rat(a.n * (b.d \div g) + b.n * (a.d \div g), (a.d \div g) * b.d)
RNeg(a) == [k |-> "num", n |-> -a.n, d |-> a.d]
RSub(a, b) == RAdd(a, RNeg(b))
RMul(a, b) ==
    LET g1 == GCD(Abs(a.n), b.d)
        g2 == GCD(Abs(b.n), a.d)
    IN  Rat((a.n \div g1) * (b.n \div g2), (a.d \div g2) * (b.d \div g1))
RDiv(a, b) == RMul(a, Rat(b.d, b.n))
RLt(a, b) ==
    LET g == GCD(a.d, b.d)
    IN  a.n * (b.d \div g) < b.n * (a.d \div g)
RGe(a, b) == ~RLt(a, b)
RGt(a, b) == RLt(b, a)

----------------------------------------------------------------------------
(* Program constants *)

\* VREF_ADS1015[pga], in millivolts; the Python list is indexed from 0
VREF_ADS1015 == <<6144, 4096, 2048, 1024, 512, 256, 256, 256>>
Vref(pga) == VREF_ADS1015[pga + 1]

\* the argument check of _check_adc_config: pga, then sps, in (0..7)
check_adc_config(pga, sps) == pga \in 0..7 /\ sps \in 0..7

----------------------------------------------------------------------------
(* Conversion pipelines: pure functions *)

\* _convert_010: V = (raw/2047) * vref * G, G = 5; vref in millivolts
convert_010(raw, vref) == Rat(raw * vref * 5, 2047 * 1000)

\* _convert_420: V as above, c = V/R with R = 124, returned in milliamps
convert_420(raw, vref) == RMul(RDiv(convert_010(raw, vref), Num(124)), Num(1000))

\* _scale_010_420
scale_010_420_offset_always(value, x_min, x_max, y_min, y_max, offset, under_x, over_x) ==
    IF RLt(value, Num(x_min)) THEN RAdd(under_x, offset)
    ELSE IF RGt(value, Num(x_max)) THEN RAdd(over_x, offset)
    ELSE RAdd(RAdd(y_min,
                   RDiv(RMul(RSub(value, Num(x_min)), RSub(y_max, y_min)),
                        Num(x_max - x_min))),
              offset)
scale_010_420(value, x_min, x_max, y_min, y_max, offset, under_x, over_x) ==
    IF RLt(value, Num(x_min)) THEN under_x
    ELSE IF RGt(value, Num(x_max)) THEN over_x
    ELSE RAdd(RAdd(y_min,
                   RDiv(RMul(RSub(value, Num(x_min)), RSub(y_max, y_min)),
                        Num(x_max - x_min))),
              offset)

\* _convert_resistive: V = (raw/2047)*vref, value = V * Rpu / (Vdd - V),
\* Rpu = 43, Vdd = 3.3
convert_resistive(raw, vref) ==
    \* V = raw*vref/2047000 and Vdd - V = (6755100 - raw*vref)/2047000
    IF 3300 * 2047 - raw * vref = 0 THEN Raise("ZeroDivisionError")
    ELSE Rat(raw * vref * 43, 3300 * 2047 - raw * vref)

\* ref_table[::-1]
Reverse(s) == [j \in 1..Len(s) |-> s[Len(s) + 1 - j]]

\* _scale_resistive; ref_table is a sequence of numbers, Python index i is
\* position i + 1 here
scale_resistive_steps(value, v_min, ref_table, delta, offset, out_of_range) ==
    IF Len(ref_table) = 0 THEN Raise("IndexError")
    ELSE
    LET tbl == IF RLt(ref_table[1], ref_table[Len(ref_table)])
               THEN Reverse(ref_table) ELSE ref_table
        hits == {i \in 0..(Len(tbl) - 2) : ~RLt(value, tbl[i + 2])}
    IN  IF RGe(value, tbl[1]) THEN out_of_range
        ELSE IF hits = {} THEN out_of_range
        ELSE LET i == CHOOSE j \in hits : \A h \in hits : j <= h
                 x1 == tbl[i + 1]
                 y1 == RAdd(v_min, RMul(delta, Num(i)))
                 x2 == tbl[i + 2]
                 y2 == RAdd(v_min, RMul(delta, Num(i + 1)))
                 dx == RSub(x2, x1)
             IN  IF dx.n = 0 THEN Raise("ZeroDivisionError")
                 ELSE LET m == RDiv(RSub(y2, y1), dx)
                          q == RDiv(RSub(RMul(x2, y1), RMul(x1, y2)), dx)
                      IN  y1
scale_resistive_last_pair(value, v_min, ref_table, delta, offset, out_of_range) ==
    IF Len(ref_table) = 0 THEN Raise("IndexError")
    ELSE
    LET tbl == IF RLt(ref_table[1], ref_table[Len(ref_table)])
               THEN Reverse(ref_table) ELSE ref_table
        hits == {i \in 0..(Len(tbl) - 2) : ~RLt(value, tbl[i + 2])}
    IN  IF RGe(value, tbl[1]) THEN out_of_range
        ELSE IF hits = {} THEN out_of_range
        ELSE LET i == CHOOSE j \in hits : \A h \in hits : j >= h
                 x1 == tbl[i + 1]
                 y1 == RAdd(v_min, RMul(delta, Num(i)))
                 x2 == tbl[i + 2]
                 y2 == RAdd(v_min, RMul(delta, Num(i + 1)))
                 dx == RSub(x2, x1)
             IN  IF dx.n = 0 THEN Raise("ZeroDivisionError")
                 ELSE LET m == RDiv(RSub(y2, y1), dx)
                          q == RDiv(RSub(RMul(x2, y1), RMul(x1, y2)), dx)
                      IN  RAdd(RMul(m, value), q)
scale_resistive_as_given(value, v_min, ref_table, delta, offset, out_of_range) ==
    IF Len(ref_table) = 0 THEN Raise("IndexError")
    ELSE
    LET tbl == ref_table
        hits == {i \in 0..(Len(tbl) - 2) : ~RLt(value, tbl[i + 2])}
    IN  IF RGe(value, tbl[1]) THEN out_of_range
        ELSE IF hits = {} THEN out_of_range
        ELSE LET i == CHOOSE j \in hits : \A h \in hits : j <= h
                 x1 == tbl[i + 1]
                 y1 == RAdd(v_min, RMul(delta, Num(i)))
                 x2 == tbl[i + 2]
                 y2 == RAdd(v_min, RMul(delta, Num(i + 1)))
                 dx == RSub(x2, x1)
             IN  IF dx.n = 0 THEN Raise("ZeroDivisionError")
                 ELSE LET m == RDiv(RSub(y2, y1), dx)
                          q == RDiv(RSub(RMul(x2, y1), RMul(x1, y2)), dx)
                      IN  RAdd(RMul(m, value), q)
scale_resistive_none_is_v_min(value, v_min, ref_table, delta, offset, out_of_range) ==
    IF Len(ref_table) = 0 THEN Raise("IndexError")
    ELSE
    LET tbl == IF RLt(ref_table[1], ref_table[Len(ref_table)])
               THEN Reverse(ref_table) ELSE ref_table
        hits == {i \in 0..(Len(tbl) - 2) : ~RLt(value, tbl[i + 2])}
        missing == IF out_of_range = NoneV THEN v_min ELSE out_of_range
    IN  IF RGe(value, tbl[1]) THEN missing
        ELSE IF hits = {} THEN missing
        ELSE LET i == CHOOSE j \in hits : \A h \in hits : j <= h
                 x1 == tbl[i + 1]
                 y1 == RAdd(v_min, RMul(delta, Num(i)))
                 x2 == tbl[i + 2]
                 y2 == RAdd(v_min, RMul(delta, Num(i + 1)))
                 dx == RSub(x2, x1)
             IN  IF dx.n = 0 THEN Raise("ZeroDivisionError")
                 ELSE LET m == RDiv(RSub(y2, y1), dx)
                          q == RDiv(RSub(RMul(x2, y1), RMul(x1, y2)), dx)
                      IN  RAdd(RMul(m, value), q)
scale_resistive_adds_offset(value, v_min, ref_table, delta, offset, out_of_range) ==
    IF Len(ref_table) = 0 THEN Raise("IndexError")
    ELSE
    LET tbl == IF RLt(ref_table[1], ref_table[Len(ref_table)])
               THEN Reverse(ref_table) ELSE ref_table
        \* the iterations of the for loop that do not `continue`
        hits == {i \in 0..(Len(tbl) - 2) : ~RLt(value, tbl[i + 2])}
    IN  IF RGe(value, tbl[1]) THEN out_of_range
        ELSE IF hits = {} THEN out_of_range
        ELSE LET i == CHOOSE j \in hits : \A h \in hits : j <= h
                 x1 == tbl[i + 1]
                 y1 == RAdd(v_min, RMul(delta, Num(i)))
                 x2 == tbl[i + 2]
                 y2 == RAdd(v_min, RMul(delta, Num(i + 1)))
                 dx == RSub(x2, x1)
             IN  IF dx.n = 0 THEN Raise("ZeroDivisionError")
                 ELSE LET m == RDiv(RSub(y2, y1), dx)
                          q == RDiv(RSub(RMul(x2, y1), RMul(x1, y2)), dx)
                      IN  RAdd(RAdd(RMul(m, value), q), offset)
scale_resistive_no_upper_check(value, v_min, ref_table, delta, offset, out_of_range) ==
    IF Len(ref_table) = 0 THEN Raise("IndexError")
    ELSE
    LET tbl == IF RLt(ref_table[1], ref_table[Len(ref_table)])
               THEN Reverse(ref_table) ELSE ref_table
        \* the iterations of the for loop that do not `continue`
        hits == {i \in 0..(Len(tbl) - 2) : ~RLt(value, tbl[i + 2])}
    IN  IF FALSE THEN out_of_range
        ELSE IF hits = {} THEN out_of_range
        ELSE LET i == CHOOSE j \in hits : \A h \in hits : j <= h
                 x1 == tbl[i + 1]
                 y1 == RAdd(v_min, RMul(delta, Num(i)))
                 x2 == tbl[i + 2]
                 y2 == RAdd(v_min, RMul(delta, Num(i + 1)))
                 dx == RSub(x2, x1)
             IN  IF dx.n = 0 THEN Raise("ZeroDivisionError")
                 ELSE LET m == RDiv(RSub(y2, y1), dx)
                          q == RDiv(RSub(RMul(x2, y1), RMul(x1, y2)), dx)
                      IN  RAdd(RMul(m, value), q)
scale_resistive(value, v_min, ref_table, delta, offset, out_of_range) ==
    IF Len(ref_table) = 0 THEN Raise("IndexError")
    ELSE
    LET tbl == IF RLt(ref_table[1], ref_table[Len(ref_table)])
               THEN Reverse(ref_table) ELSE ref_table
        \* the iterations of the for loop that do not `continue`
        hits == {i \in 0..(Len(tbl) - 2) : ~RLt(value, tbl[i + 2])}
    IN  IF RGe(value, tbl[1]) THEN out_of_range
        ELSE IF hits = {} THEN out_of_range
        ELSE LET i == CHOOSE j \in hits : \A h \in hits : j <= h
                 x1 == tbl[i + 1]
                 y1 == RAdd(v_min, RMul(delta, Num(i)))
                 x2 == tbl[i + 2]
                 y2 == RAdd(v_min, RMul(delta, Num(i + 1)))
                 dx == RSub(x2, x1)
             IN  IF dx.n = 0 THEN Raise("ZeroDivisionError")
                 ELSE LET m == RDiv(RSub(y2, y1), dx)
                          q == RDiv(RSub(RMul(x2, y1), RMul(x1, y2)), dx)
                      IN  RAdd(RMul(m, value), q)

\* _convert_current: i_secondary = (raw/2)*vref/2048/20,
\* i_primary = ratio*i_secondary/ncoil; vref in millivolts
convert_current(raw, vref, ncoil, ratio) ==
    IF ncoil = 0 THEN Raise("ZeroDivisionError")
    ELSE RDiv(RMul(Num(ratio), Rat(raw * vref, 2 * 2048 * 20 * 1000)), Num(ncoil))

\* _convert_power: (value*voltage*0.7071) + offset
convert_power(value, voltage, offset) ==
    RAdd(RMul(RMul(value, Num(voltage)), Rat(7071, 10000)), Num(offset))

----------------------------------------------------------------------------
(* State *)

VARIABLES
    lockI2C,                    \* threading.Lock(): TRUE while it is held
    lockSPI,                    \* the lock for SPI0
    lockFLASH,                  \* the lock for the internal flash
    net_initialized,            \* net_initialized: net_init has succeeded
    iface_en,                   \* _eth_en, _wifi_en or _gsm_en: the flag of the
                                \* one interface compiled in
    adc_config,                 \* _adc_config[ch - 1]
    adc_conversion,             \* _adc_conversion[ch - 1]
    adc_resistive_config,       \* _adc_resistive_config[ch - 1]
    adc_resistive_conversion,   \* _adc_resistive_conversion[ch - 1]
    adc_current_config,         \* _adc_current_config[ch - 1]
    adc_current_conversion,     \* _adc_current_conversion[ch - 1]
    pc,                         \* where each thread is in the call it makes
    call,                       \* the call each thread makes, or made last
    frame,                      \* the locals of that call
    trace,                      \* the bus operations of that call, in order
    result,                     \* what the last finished call returned or raised
    ncalls                      \* store calls made so far in a run of SpecStore

store == <<adc_config, adc_conversion, adc_resistive_config,
           adc_resistive_conversion, adc_current_config, adc_current_conversion>>
\* what the ADC and GPIO-expander operations never touch
others == <<lockSPI, lockFLASH, net_initialized, iface_en>>
vars == <<lockI2C, lockSPI, lockFLASH, net_initialized, iface_en, adc_config, adc_conversion, adc_resistive_config,
          adc_resistive_conversion, adc_current_config, adc_current_conversion,
          pc, call, frame, trace, result, ncalls>>

\* bounds of the model
MaxTimeout == 2     \* longest timeout, in ms, passed to a serial read
MaxBytes == 2       \* most bytes a serial port holds
MaxTableLen == 3    \* longest ref_table passed to _scale_resistive
MaxEntry == 4       \* largest entry of a ref_table
MaxStoreCalls == 2  \* calls in a run of the store operations alone
MaxBurst == 2       \* largest N_SAMPLES a channel holds in a run

\* the threads that call the driver: the one a claim follows and one that
\* interferes with it
Threads == {"t1", "t2"}

\* {PGA: 2, SPS: 7, VREF: VREF_ADS1015[2]}
DefaultConfig == [PGA |-> 2, SPS |-> 7, VREF |-> Vref(2)]
\* {Y_MIN: 0, Y_MAX: 100, OFFSET: 0, UNDER_X: 0, OVER_X: 100}
DefaultLinear ==
    [Y_MIN |-> Num(0), Y_MAX |-> Num(100), OFFSET |-> Num(0),
     UNDER_X |-> Num(0), OVER_X |-> Num(100)]
\* {V_MIN: 0, REF_TABLE: [], DELTA: 0, OFFSET: 0, OUT_OF_RANGE: None}
DefaultResistive ==
    [V_MIN |-> Num(0), REF_TABLE |-> <<>>, DELTA |-> Num(0), OFFSET |-> Num(0),
     OUT_OF_RANGE |-> NoneV]
\* {N_SAMPLES: 400, NCOIL: 1, RATIO: 2000, VOLTAGE: 220, OFFSET: 0}
DefaultCurrent ==
    [N_SAMPLES |-> 400, NCOIL |-> 1, RATIO |-> 2000, VOLTAGE |-> 220, OFFSET |-> 0]

NoCall == [op |-> "none", ch |-> 0, raw |-> FALSE, electric_value |-> FALSE,
           color |-> ""]
\* M = 0, m = 5000 are read_power's initial values; the other locals are
\* unset until the call assigns them; adc and channel are the chip and the
\* mux channel of the call's adc.set
NoFrame == [pga |-> -1, sps |-> -1, data |-> 0, M |-> 0, m |-> 5000,
            i |-> 0, n |-> 0, attempt |-> 0, adc |-> -1, channel |-> -1]

\* LEDS: the pins of each colour
LEDS == [R |-> {"LED_R"}, G |-> {"LED_G"}, B |-> {"LED_B"},
         M |-> {"LED_R", "LED_B"}, Y |-> {"LED_R", "LED_G"},
         C |-> {"LED_G", "LED_B"}, W |-> {"LED_R", "LED_G", "LED_B"}]

\* the state FourZeroBox.__init__ leaves: lockI2C free, the three
\* ADCs with their default configuration and conversion records
Init ==
    /\ lockI2C = FALSE
    /\ lockSPI = FALSE
    /\ lockFLASH = FALSE
    /\ net_initialized = FALSE
    /\ iface_en = FALSE
    /\ adc_config = [c \in 1..4 |-> DefaultConfig]
    /\ adc_conversion = [c \in 1..4 |-> DefaultLinear]
    /\ adc_resistive_config = [c \in 1..4 |-> DefaultConfig]
    /\ adc_resistive_conversion = [c \in 1..4 |-> DefaultResistive]
    /\ adc_current_config = [c \in 1..3 |-> DefaultConfig]
    /\ adc_current_conversion = [c \in 1..3 |-> DefaultCurrent]
    /\ pc = [t \in Threads |-> "idle"]
    /\ call = [t \in Threads |-> NoCall]
    /\ frame = [t \in Threads |-> NoFrame]
    /\ trace = [t \in Threads |-> <<>>]
    /\ result = [t \in Threads |-> NoneV]
    /\ ncalls = 0

----------------------------------------------------------------------------
(* A call that runs to its end in one step: the caller t is idle before    *)
(* and after, and what the call returned or raised is in result[t].        *)

Returns(t, op, ch, v) ==
    /\ pc[t] = "idle"
    /\ call' = [call EXCEPT ![t] = [NoCall EXCEPT !.op = op, !.ch = ch]]
    /\ result' = [result EXCEPT ![t] = v]
    /\ frame' = [frame EXCEPT ![t] = NoFrame]
    /\ trace' = [trace EXCEPT ![t] = <<>>]
    /\ UNCHANGED <<pc, lockI2C, others>>

----------------------------------------------------------------------------
(* Channel configuration store.  A call is one step: the claims about the *)
(* store speak of completed calls.  In the code the assignments of a call  *)
(* are separate statements, so a read beside it can also see a record half *)
(* written; the model leaves those states out.                             *)

\* list[idx] = rec, with idx = ch - 1: the record of channel ch alone
SetItemAliased(list, ch, rec) == [c \in DOMAIN list |-> rec]
SetItem(list, ch, rec) == [list EXCEPT ![ch] = rec]

\* the three assignments [PGA] = pga, [SPS] = sps, [VREF] = VREF_ADS1015[pga]
ConfigRecordAdds(old, pga, sps) ==
    [old EXCEPT !.PGA = (old.PGA + pga) % 8, !.SPS = sps,
                !.VREF = Vref((old.PGA + pga) % 8)]
ConfigRecordStaleVref(old, pga, sps) == [old EXCEPT !.PGA = pga, !.SPS = sps]
ConfigRecord(old, pga, sps) ==
    [old EXCEPT !.PGA = pga, !.SPS = sps, !.VREF = Vref(pga)]

\* ch in (1,2,3,4), then _check_adc_config, before anything is assigned
ConfigAcceptedNoSps(nch, ch, pga, sps) == ch \in 1..nch /\ pga \in 0..7
ConfigAccepted(nch, ch, pga, sps) == ch \in 1..nch /\ check_adc_config(pga, sps)

config_adc_010_420(t, ch, pga, sps) ==
    IF ConfigAccepted(4, ch, pga, sps)
    THEN /\ adc_config' = SetItem(adc_config, ch, ConfigRecord(adc_config[ch], pga, sps))
         /\ Returns(t, "config_adc_010_420", ch, NoneV)
         /\ UNCHANGED <<adc_conversion, adc_resistive_config, adc_resistive_conversion,
                        adc_current_config, adc_current_conversion>>
    ELSE /\ Returns(t, "config_adc_010_420", ch, Raise("ValueError"))
         /\ UNCHANGED store

config_adc_resistive(t, ch, pga, sps) ==
    IF ConfigAccepted(4, ch, pga, sps)
    THEN /\ adc_resistive_config' =
                SetItem(adc_resistive_config, ch,
                        ConfigRecord(adc_resistive_config[ch], pga, sps))
         /\ Returns(t, "config_adc_resistive", ch, NoneV)
         /\ UNCHANGED <<adc_config, adc_conversion, adc_resistive_conversion,
                        adc_current_config, adc_current_conversion>>
    ELSE /\ Returns(t, "config_adc_resistive", ch, Raise("ValueError"))
         /\ UNCHANGED store

config_adc_current(t, ch, pga, sps) ==
    IF ConfigAccepted(3, ch, pga, sps)
    THEN /\ adc_current_config' =
                SetItem(adc_current_config, ch,
                        ConfigRecord(adc_current_config[ch], pga, sps))
         /\ Returns(t, "config_adc_current", ch, NoneV)
         /\ UNCHANGED <<adc_config, adc_conversion, adc_resistive_config,
                        adc_resistive_conversion, adc_current_conversion>>
    ELSE /\ Returns(t, "config_adc_current", ch, Raise("ValueError"))
         /\ UNCHANGED store

\* set_conversion_010_420(ch, y_min, y_max, offset, under_x, over_x); p holds
\* the five arguments
set_conversion_010_420(t, ch, p) ==
    IF ch \in 1..4
    THEN /\ adc_conversion' = SetItem(adc_conversion, ch, p)
         /\ Returns(t, "set_conversion_010_420", ch, NoneV)
         /\ UNCHANGED <<adc_config, adc_resistive_config, adc_resistive_conversion,
                        adc_current_config, adc_current_conversion>>
    ELSE /\ Returns(t, "set_conversion_010_420", ch, Raise("ValueError"))
         /\ UNCHANGED store

\* set_conversion_resistive(ch, v_min, ref_table, delta, offset, out_of_range)
set_conversion_resistive(t, ch, p) ==
    IF ch \in 1..4
    THEN /\ adc_resistive_conversion' = SetItem(adc_resistive_conversion, ch, p)
         /\ Returns(t, "set_conversion_resistive", ch, NoneV)
         /\ UNCHANGED <<adc_config, adc_conversion, adc_resistive_config,
                        adc_current_config, adc_current_conversion>>
    ELSE /\ Returns(t, "set_conversion_resistive", ch, Raise("ValueError"))
         /\ UNCHANGED store

\* set_conversion_current(ch, n_samples, ncoil, ratio, voltage, offset)
set_conversion_current(t, ch, p) ==
    IF ch \in 1..3
    THEN /\ adc_current_conversion' = SetItem(adc_current_conversion, ch, p)
         /\ Returns(t, "set_conversion_current", ch, NoneV)
         /\ UNCHANGED <<adc_config, adc_conversion, adc_resistive_config,
                        adc_resistive_conversion, adc_current_config>>
    ELSE /\ Returns(t, "set_conversion_current", ch, Raise("ValueError"))
         /\ UNCHANGED store

----------------------------------------------------------------------------
(* The store operations called one after another by one thread, with       *)
(* arguments on both sides of every validity boundary.                     *)

MainThread == "t1"
ChIn == 0..5
PgaIn == {-1, 0, 7, 8}
SpsIn == {0, 8}
LinearIn ==
    {[Y_MIN |-> Num(4), Y_MAX |-> Num(20), OFFSET |-> Num(1),
      UNDER_X |-> NoneV, OVER_X |-> NoneV]}
ResistiveIn ==
    {[V_MIN |-> Num(0), REF_TABLE |-> <<Num(1), Num(2), Num(3), Num(4)>>,
      DELTA |-> Num(10), OFFSET |-> Num(0), OUT_OF_RANGE |-> NoneV],
     [V_MIN |-> Num(-5), REF_TABLE |-> <<Num(40), Num(20), Num(10)>>,
      DELTA |-> Num(5), OFFSET |-> Num(3), OUT_OF_RANGE |-> Num(-1)]}
CurrentIn ==
    {[N_SAMPLES |-> n, NCOIL |-> 2, RATIO |-> 1000, VOLTAGE |-> 110, OFFSET |-> 5] :
        n \in 0..MaxBurst}

\* a run makes at most MaxStoreCalls calls
Counted == ncalls < MaxStoreCalls /\ ncalls' = ncalls + 1

StoreNext ==
    \/ \E ch \in ChIn, pga \in PgaIn, sps \in SpsIn :
          Counted /\ config_adc_010_420(MainThread, ch, pga, sps)
    \/ \E ch \in ChIn, pga \in PgaIn, sps \in SpsIn :
          Counted /\ config_adc_resistive(MainThread, ch, pga, sps)
    \/ \E ch \in ChIn, pga \in PgaIn, sps \in SpsIn :
          Counted /\ config_adc_current(MainThread, ch, pga, sps)
    \/ \E ch \in ChIn, p \in LinearIn :
          Counted /\ set_conversion_010_420(MainThread, ch, p)
    \/ \E ch \in ChIn, p \in ResistiveIn :
          Counted /\ set_conversion_resistive(MainThread, ch, p)
    \/ \E ch \in ChIn, p \in CurrentIn :
          Counted /\ set_conversion_current(MainThread, ch, p)

SpecStore == Init /\ [][StoreNext]_vars

----------------------------------------------------------------------------
(* The I2C bus lock *)

\* lockI2C.acquire(): blocks while the lock is held
AcquireNoWait == lockI2C' = TRUE
acquire == lockI2C = FALSE /\ lockI2C' = TRUE

\* lockI2C.release()
release == lockI2C' = FALSE

----------------------------------------------------------------------------
(* The four read operations, step by step.  A thread in a read is at       *)
(* "acquire" (about to take the lock), "set" (about to configure the       *)
(* chip), "get" (about to read a sample), "release", or "convert" (the     *)
(* lock released, about to convert and return).                            *)

ReadOps == {"read_010", "read_420", "read_resistive", "read_power"}

\* the channels of the ADC an operation reads
NChannels(op) == IF op = "read_power" THEN 3 ELSE 4

ConfigOfSeparate(op, ch) ==
    CASE op = "read_010" -> adc_config[ch]
      [] op = "read_420" -> DefaultConfig
      [] op = "read_resistive" -> adc_resistive_config[ch]
      [] op = "read_power" -> adc_current_config[ch]
\* the configuration record a read of channel ch uses
ConfigOf(op, ch) ==
    CASE op \in {"read_010", "read_420"} -> adc_config[ch]
      [] op = "read_resistive" -> adc_resistive_config[ch]
      [] op = "read_power" -> adc_current_config[ch]

\* the I2C address of the chip a read talks to: self.adc (addr=73) in
\* read_010 and read_420, self.adc_resistive (addr=72), self.adc_current
\* (addr=75)
AdcOf(op) ==
    CASE op \in {"read_010", "read_420"} -> 73
      [] op = "read_resistive" -> 72
      [] op = "read_power" -> 75

Event(e, v) == [e |-> e, v |-> v]
Log(t, e, v) == trace' = [trace EXCEPT ![t] = Append(@, Event(e, v))]

\* the first lines of a read: both flags set raises UnsupportedError, a
\* channel out of range raises ValueError; otherwise the call goes on to
\* take the lock
ReadArgsErrorFlagsUnchecked(op, ch, raw, electric_value) ==
    IF ch \notin 1..NChannels(op) THEN "ValueError" ELSE "no"
ReadArgsError(op, ch, raw, electric_value) ==
    IF raw /\ electric_value THEN "UnsupportedError"
    ELSE IF ch \notin 1..NChannels(op) THEN "ValueError"
    ELSE "no"

\* a call whose arguments are refused ends at once; an accepted one goes
\* on to take the lock
Enter(t, c, err) ==
    /\ pc[t] = "idle"
    /\ call' = [call EXCEPT ![t] = c]
    /\ frame' = [frame EXCEPT ![t] = NoFrame]
    /\ trace' = [trace EXCEPT ![t] = <<>>]
    /\ IF err # "no"
       THEN /\ result' = [result EXCEPT ![t] = Raise(err)]
            /\ UNCHANGED pc
       ELSE /\ result' = [result EXCEPT ![t] = Raise("running")]
            /\ pc' = [pc EXCEPT ![t] = "acquire"]

ReadCall(t, op, ch, raw, electric_value) ==
    /\ Enter(t, [NoCall EXCEPT !.op = op, !.ch = ch, !.raw = raw,
                               !.electric_value = electric_value],
             ReadArgsError(op, ch, raw, electric_value))
    /\ UNCHANGED <<lockI2C, others, store, ncalls>>

\* the LED patterns error_sys, error_connect, error_custom
BlinkOps == {"error_sys", "error_connect", "error_custom"}
\* `for i in range(5)` of error_sys, `for i in range(25)` of error_connect
ErrorSysCycles == 5
ErrorConnectCycles == 25
\* the on/off cycles of the pattern call c runs: net_init runs error_sys and
\* net_connect runs error_connect; error_custom has n_pulses in c.ch
Cycles(c) ==
    CASE c.op \in {"error_sys", "net_init"} -> ErrorSysCycles
      [] c.op \in {"error_connect", "net_connect"} -> ErrorConnectCycles
      [] OTHER -> c.ch

SectionReacquires(c) ==
    CASE c.op \in ReadOps -> "set"
      [] c.op \in BlinkOps \cup {"net_init", "net_connect"} ->
            IF Cycles(c) > 0 THEN "low" ELSE "release"
      [] c.op \in {"pulse", "reverse_pulse"} -> "acquire"
      [] OTHER -> "gpio"
\* what a call does first once it holds lockI2C: a read sets the chip up, a
\* pattern enters its loop, or skips it when range() is empty, any other
\* operation drives or reads its pins
Section(c) ==
    CASE c.op \in ReadOps -> "set"
      [] c.op \in BlinkOps \cup {"net_init", "net_connect"} ->
            IF Cycles(c) > 0 THEN "low" ELSE "release"
      [] OTHER -> "gpio"

\* self.lockI2C.acquire()
Acquire(t) ==
    /\ pc[t] = "acquire"
    /\ acquire
    /\ Log(t, "acquire", 0)
    /\ pc' = [pc EXCEPT ![t] = Section(call[t])]
    /\ UNCHANGED <<others, store, call, frame, result, ncalls>>

\* the end of a call: its locals are gone, v is what it returned or raised
Ends(t, v) ==
    /\ pc' = [pc EXCEPT ![t] = "idle"]
    /\ UNCHANGED call
    /\ frame' = [frame EXCEPT ![t] = NoFrame]
    /\ trace' = [trace EXCEPT ![t] = <<>>]
    /\ result' = [result EXCEPT ![t] = v]

FailsReturnsNone(t) ==
    /\ Ends(t, NoneV)
    /\ UNCHANGED <<lockI2C, others, store, ncalls>>
\* an I2C transaction that raises: the exception leaves the call at once,
\* past the release() that ends the locked section
Fails(t) ==
    /\ Ends(t, Raise("IOError"))
    /\ UNCHANGED <<lockI2C, others, store, ncalls>>

AdcSetOfConstruction(t) ==
    /\ pc[t] = "set"
    /\ LET c == call[t]
           cfg == DefaultConfig
           n == IF c.op = "read_power"
                THEN adc_current_conversion[c.ch].N_SAMPLES ELSE 1
       IN  \/ /\ Log(t, "set", 0)
              /\ frame' = [frame EXCEPT ![t].pga = cfg.PGA, ![t].sps = cfg.SPS,
                                        ![t].n = n, ![t].adc = AdcOf(c.op),
                                        ![t].channel = c.ch + 3]
              /\ pc' = [pc EXCEPT ![t] = IF c.op = "read_power" /\ n <= 0
                                         THEN "release" ELSE "get"]
              /\ UNCHANGED <<lockI2C, others, store, call, result, ncalls>>
           \/ Fails(t)
\* adc.set(os=0, ch=channel, pga=..[PGA], sps=..[SPS]); read_power then
\* evaluates range(..[N_SAMPLES]) and enters, or skips, its loop
AdcSet(t) ==
    /\ pc[t] = "set"
    /\ LET c == call[t]
           cfg == ConfigOf(c.op, c.ch)
           n == IF c.op = "read_power"
                THEN adc_current_conversion[c.ch].N_SAMPLES ELSE 1
       IN  \/ /\ Log(t, "set", 0)
              /\ frame' = [frame EXCEPT ![t].pga = cfg.PGA, ![t].sps = cfg.SPS,
                                        ![t].n = n, ![t].adc = AdcOf(c.op),
                                        ![t].channel = c.ch + 3]
              /\ pc' = [pc EXCEPT ![t] = IF c.op = "read_power" /\ n <= 0
                                         THEN "release" ELSE "get"]
              /\ UNCHANGED <<lockI2C, others, store, call, result, ncalls>>
           \/ Fails(t)

\* data = adc.get_raw_data(); in read_power, one pass of the loop:
\* rd = get_raw_data(); if rd > M: M = rd; if rd < m: m = rd
NextSampleStopsOnNegative(f, rd) ==
    [f EXCEPT !.M = IF rd > f.M THEN rd ELSE f.M,
              !.m = IF rd < f.m THEN rd ELSE f.m,
              !.i = IF rd < 0 THEN f.n ELSE f.i + 1]
NextSample(f, rd) ==
    [f EXCEPT !.M = IF rd > f.M THEN rd ELSE f.M,
              !.m = IF rd < f.m THEN rd ELSE f.m,
              !.i = f.i + 1]

\* codes: the values the chip returns in the run
AdcGet(t, codes) ==
    /\ pc[t] = "get"
    /\ \/ \E rd \in codes :
            /\ Log(t, "get", rd)
            /\ IF call[t].op = "read_power"
               THEN LET f == NextSample(frame[t], rd) IN
                    /\ frame' = [frame EXCEPT ![t] = f]
                    /\ pc' = [pc EXCEPT ![t] = IF f.i < f.n THEN "get" ELSE "release"]
               ELSE /\ frame' = [frame EXCEPT ![t].data = rd]
                    /\ pc' = [pc EXCEPT ![t] = "release"]
            /\ UNCHANGED <<lockI2C, others, store, call, result, ncalls>>
       \/ Fails(t)

\* self.lockI2C.release(), the last statement of every locked section
Release(t) ==
    /\ pc[t] = "release"
    /\ release
    /\ Log(t, "release", 0)
    /\ pc' = [pc EXCEPT ![t] = "convert"]
    /\ UNCHANGED <<others, store, call, frame, result, ncalls>>

\* what a read returns once the lock is released: `if raw: return data`,
\* then the conversion with the VREF stored now, then
\* `if electric_value: return edata`, then the scaling with the conversion
\* record stored now.  f holds the call's locals, vref the VREF read, cv the
\* conversion record of the channel.
ReadResultRawOffset(op, raw, electric_value, f, vref, cv) ==
    IF op = "read_power" THEN Num(f.M - f.m + cv.OFFSET)
    ELSE RAdd(Num(f.data), cv.OFFSET)
ReadResult(op, raw, electric_value, f, vref, cv) ==
    LET data == IF op = "read_power" THEN f.M - f.m ELSE f.data
        edata == CASE op = "read_010" -> convert_010(data, vref)
                   [] op = "read_420" -> convert_420(data, vref)
                   [] op = "read_resistive" -> convert_resistive(data, vref)
                   [] op = "read_power" -> convert_current(data, vref, cv.NCOIL, cv.RATIO)
    IN  IF raw THEN Num(data)
        ELSE IF electric_value \/ ~IsNum(edata) THEN edata
        ELSE CASE op = "read_010" ->
                    scale_010_420(edata, 0, 10, cv.Y_MIN, cv.Y_MAX, cv.OFFSET,
                                  cv.UNDER_X, cv.OVER_X)
               [] op = "read_420" ->
                    scale_010_420(edata, 4, 20, cv.Y_MIN, cv.Y_MAX, cv.OFFSET,
                                  cv.UNDER_X, cv.OVER_X)
               [] op = "read_resistive" ->
                    scale_resistive(edata, cv.V_MIN, cv.REF_TABLE, cv.DELTA,
                                    cv.OFFSET, cv.OUT_OF_RANGE)
               [] op = "read_power" -> convert_power(edata, cv.VOLTAGE, cv.OFFSET)

\* the conversion record a read of channel ch uses
ConversionOf(op, ch) ==
    CASE op \in {"read_010", "read_420"} -> adc_conversion[ch]
      [] op = "read_resistive" -> adc_resistive_conversion[ch]
      [] op = "read_power" -> adc_current_conversion[ch]

ReadReturn(t) ==
    /\ pc[t] = "convert"
    /\ call[t].op \in ReadOps
    /\ LET c == call[t]
           vref == ConfigOf(c.op, c.ch).VREF
       IN  Ends(t, ReadResult(c.op, c.raw, c.electric_value, frame[t], vref,
                              ConversionOf(c.op, c.ch)))
    /\ UNCHANGED <<lockI2C, others, store, ncalls>>

----------------------------------------------------------------------------
(* The lock-guarded operations on the GPIO expander *)

GpioOps == {"set_led", "clear_led", "relay_on", "relay_off", "sink_on", "sink_off",
            "get_opto", "get_power_source"}

\* `if color not in LEDS: raise ValueError`; n_rel, n_snk, n_opto must be 1 or 2
GpioArgsOk(op, n, color) ==
    CASE op = "set_led" -> color \in DOMAIN LEDS
      [] op \in {"clear_led", "get_power_source"} -> TRUE
      [] OTHER -> n \in {1, 2}

GpioCall(t, op, n, color) ==
    /\ Enter(t, [NoCall EXCEPT !.op = op, !.ch = n, !.color = color],
             IF GpioArgsOk(op, n, color) THEN "no" ELSE "ValueError")
    /\ UNCHANGED <<lockI2C, others, store, ncalls>>

\* the locked section of the operation: its gpio.high / gpio.low / gpio.get
\* calls, taken in one step, since they touch no state of the driver; any of
\* them may raise
GpioBody(t) ==
    /\ pc[t] = "gpio"
    /\ LET c == call[t] IN
       \/ \* gpio.get(opto), gpio.get(EXTV): the level the input pin has
          /\ \E level \in IF c.op \in {"get_opto", "get_power_source"}
                          THEN {0, 1} ELSE {0} :
                /\ frame' = [frame EXCEPT ![t].data = level]
                /\ Log(t, "gpio", level)
          /\ pc' = [pc EXCEPT ![t] = "release"]
          /\ UNCHANGED <<lockI2C, others, store, call, result, ncalls>>
       \/ Fails(t)

\* `return val` of get_opto, the string of get_power_source, None otherwise
GpioResult(op, level) ==
    CASE op = "get_opto" -> Num(1 - level)
      [] op = "get_power_source" -> IF level # 0 THEN Str("external")
                                    ELSE Str("battery")
      [] OTHER -> NoneV

GpioReturn(t) ==
    /\ pc[t] = "convert"
    /\ call[t].op \in GpioOps
    /\ Ends(t, GpioResult(call[t].op, frame[t].data))
    /\ UNCHANGED <<lockI2C, others, store, ncalls>>

----------------------------------------------------------------------------
(* Threads calling the driver concurrently.  The run starts after          *)
(* construction and one set_conversion_current call per current channel,   *)
(* which stores a sample count the model can run through.                  *)

BusState(n) ==
    /\ lockI2C = FALSE
    /\ lockSPI = FALSE
    /\ lockFLASH = FALSE
    /\ net_initialized = FALSE
    /\ iface_en = FALSE
    /\ adc_config = [c \in 1..4 |-> DefaultConfig]
    /\ adc_conversion = [c \in 1..4 |-> DefaultLinear]
    /\ adc_resistive_config = [c \in 1..4 |-> DefaultConfig]
    /\ adc_resistive_conversion = [c \in 1..4 |-> DefaultResistive]
    /\ adc_current_config = [c \in 1..3 |-> DefaultConfig]
    /\ adc_current_conversion =
          [c \in 1..3 |-> [DefaultCurrent EXCEPT !.N_SAMPLES = n]]
    /\ pc = [t \in Threads |-> "idle"]
    /\ call = [t \in Threads |-> NoCall]
    /\ frame = [t \in Threads |-> NoFrame]
    /\ trace = [t \in Threads |-> <<>>]
    /\ result = [t \in Threads |-> NoneV]
    /\ ncalls = 0

InitBus == \E n \in 0..MaxBurst : BusState(n)

\* the reads the threads call, as <<op, ch, <<raw, electric_value>> >>:
\* channel 1 of each ADC with every pair of flags, and channels outside
\* each valid range
BusReads ==
    (ReadOps \X {1} \X {<<FALSE, FALSE>>, <<TRUE, FALSE>>, <<FALSE, TRUE>>,
                        <<TRUE, TRUE>>})
    \cup (ReadOps \X {0} \X {<<FALSE, FALSE>>})
    \cup ({"read_010", "read_power"} \X {5} \X {<<TRUE, FALSE>>})
    \cup {<<"read_power", 4, <<FALSE, TRUE>> >>}
RawCodes == {-3, 1000}
GpioCalls ==
    {<<"set_led", 0, "R">>, <<"set_led", 0, "X">>, <<"clear_led", 0, "">>,
     <<"relay_on", 1, "">>, <<"relay_on", 3, "">>, <<"relay_off", 1, "">>,
     <<"sink_on", 2, "">>, <<"sink_off", 2, "">>, <<"sink_off", 0, "">>,
     <<"get_opto", 1, "">>, <<"get_opto", 3, "">>, <<"get_power_source", 0, "">>}

\* the steps of a call under way
Step(t, codes) ==
    \/ Acquire(t)
    \/ AdcSet(t)
    \/ AdcGet(t, codes)
    \/ Release(t)
    \/ ReadReturn(t)

Next ==
    \E t \in Threads :
        \/ \E r \in BusReads : ReadCall(t, r[1], r[2], r[3][1], r[3][2])
        \/ \E g \in GpioCalls : GpioCall(t, g[1], g[2], g[3])
        \/ Step(t, RawCodes)
        \/ GpioBody(t)
        \/ GpioReturn(t)

Spec == InitBus /\ [][Next]_vars

----------------------------------------------------------------------------
(* One thread reads channel 1 of each ADC while the other reconfigures     *)
(* that channel.                                                           *)

Reader == "t1"
Writer == "t2"
RacePga == {0}
RaceSps == {0}
RaceLinear ==
    {[Y_MIN |-> Num(4), Y_MAX |-> Num(20), OFFSET |-> Num(1),
      UNDER_X |-> NoneV, OVER_X |-> NoneV]}
RaceResistive ==
    {[V_MIN |-> Num(0), REF_TABLE |-> <<Num(1), Num(2), Num(3), Num(4)>>,
      DELTA |-> Num(10), OFFSET |-> Num(2), OUT_OF_RANGE |-> NoneV]}
RaceCurrent ==
    {[N_SAMPLES |-> 1, NCOIL |-> 2, RATIO |-> 1000, VOLTAGE |-> 110, OFFSET |-> 5]}

NextRace ==
    \/ \E op \in ReadOps, raw \in BOOLEAN, ev \in BOOLEAN :
          ReadCall(Reader, op, 1, raw, ev)
    \/ Step(Reader, RawCodes)
    \/ \E pga \in RacePga, sps \in RaceSps :
          config_adc_010_420(Writer, 1, pga, sps) /\ UNCHANGED ncalls
    \/ \E pga \in RacePga, sps \in RaceSps :
          config_adc_resistive(Writer, 1, pga, sps) /\ UNCHANGED ncalls
    \/ \E pga \in RacePga, sps \in RaceSps :
          config_adc_current(Writer, 1, pga, sps) /\ UNCHANGED ncalls
    \/ \E p \in RaceLinear :
          set_conversion_010_420(Writer, 1, p) /\ UNCHANGED ncalls
    \/ \E p \in RaceResistive :
          set_conversion_resistive(Writer, 1, p) /\ UNCHANGED ncalls
    \/ \E p \in RaceCurrent :
          set_conversion_current(Writer, 1, p) /\ UNCHANGED ncalls

SpecRace == BusState(1) /\ [][NextRace]_vars

----------------------------------------------------------------------------
(* The scaling functions called on their own: the caller's arguments are   *)
(* kept in call[t], what the function returned or raised in result[t].     *)

LinearValues == {Num(-1), Num(0), Rat(7, 2), Num(4), Num(5), Num(10), Num(11),
                 Num(20), Num(21)}
\* read_010 passes 0, 10 and read_420 passes 4, 20
LinearRanges == {<<0, 10>>, <<4, 20>>}
LinearParams ==
    [Y_MIN : {Num(0), Num(30)}, Y_MAX : {Num(100), Num(-10)},
     OFFSET : {Num(0), Num(3)}, UNDER_X : {NoneV, Num(0), Num(-7)},
     OVER_X : {NoneV, Num(100)}]

call_scale_010_420(t, value, x_min, x_max, p) ==
    /\ pc[t] = "idle"
    /\ call' = [call EXCEPT ![t] =
                   [op |-> "_scale_010_420", value |-> value, x_min |-> x_min,
                    x_max |-> x_max, p |-> p]]
    /\ result' = [result EXCEPT ![t] =
                     scale_010_420(value, x_min, x_max, p.Y_MIN, p.Y_MAX, p.OFFSET,
                                   p.UNDER_X, p.OVER_X)]
    /\ UNCHANGED <<pc, lockI2C, others, store, frame, trace>>

\* every ref_table of at most MaxTableLen entries among 1..MaxEntry, the
\* empty one of construction included, in any order
RefTables ==
    UNION {[1..n -> {Num(e) : e \in 1..MaxEntry}] : n \in 0..MaxTableLen}
\* the halves from 0 to MaxEntry + 1
ResistiveValues == {Rat(n, 2) : n \in 0..(2 * MaxEntry + 2)}
ResistiveParams ==
    [V_MIN : {Num(0), Num(-5)}, REF_TABLE : RefTables, DELTA : {Num(0), Num(10)},
     OFFSET : {Num(0), Num(3)}, OUT_OF_RANGE : {NoneV, Num(-1)}]

call_scale_resistive(t, value, p) ==
    /\ pc[t] = "idle"
    /\ call' = [call EXCEPT ![t] =
                   [op |-> "_scale_resistive", value |-> value, p |-> p]]
    /\ result' = [result EXCEPT ![t] =
                     scale_resistive(value, p.V_MIN, p.REF_TABLE, p.DELTA, p.OFFSET,
                                     p.OUT_OF_RANGE)]
    /\ UNCHANGED <<pc, lockI2C, others, store, frame, trace>>

\* a run calls one function once
Once == ncalls = 0 /\ ncalls' = 1

NextScale ==
    \/ /\ Once
       /\ \E value \in LinearValues, r \in LinearRanges, p \in LinearParams :
             call_scale_010_420(MainThread, value, r[1], r[2], p)
    \/ /\ Once
       /\ \E value \in ResistiveValues, p \in ResistiveParams :
             call_scale_resistive(MainThread, value, p)

SpecScale == Init /\ [][NextScale]_vars

----------------------------------------------------------------------------
(* The serial reads.  In frame[t], i is the time the timer shows, n the    *)
(* timeout of the call, data the bytes the port was last seen to hold.     *)

\* msg = [] and the bytes rs485.read(n) / rs232.read(n) gives
EmptyList == [k |-> "list", n |-> 0, d |-> 1]
Bytes(n) == [k |-> "bytes", n |-> n, d |-> 1]

SerialOps == {"read_rs485", "read_rs232"}

\* read_rs485 starts with _rs485_receive(): lockI2C.acquire(),
\* gpio.low(RS485EN), lockI2C.release()
call_read_rs485(t, timeout) ==
    /\ Enter(t, [NoCall EXCEPT !.op = "read_rs485", !.ch = timeout], "no")
    /\ UNCHANGED <<lockI2C, others, store, ncalls>>

\* then self.tim is started, or reset: it shows 0
Rs485StartTimer(t) ==
    /\ pc[t] = "convert"
    /\ call[t].op = "read_rs485"
    /\ frame' = [frame EXCEPT ![t] = [NoFrame EXCEPT !.i = 0, !.n = call[t].ch]]
    /\ pc' = [pc EXCEPT ![t] = "wait"]
    /\ UNCHANGED <<lockI2C, others, store, call, trace, result, ncalls>>

\* read_rs232 takes no lock: t = timers.timer(); t.start()
call_read_rs232(t, timeout) ==
    /\ pc[t] = "idle"
    /\ call' = [call EXCEPT ![t] = [NoCall EXCEPT !.op = "read_rs232", !.ch = timeout]]
    /\ frame' = [frame EXCEPT ![t] = [NoFrame EXCEPT !.i = 0, !.n = timeout]]
    /\ trace' = [trace EXCEPT ![t] = <<>>]
    /\ result' = [result EXCEPT ![t] = Raise("running")]
    /\ pc' = [pc EXCEPT ![t] = "wait"]
    /\ UNCHANGED <<lockI2C, others, store, ncalls>>

\* one turn of `while not available(): if tim.get() > timeout: ...; sleep(1)`.
\* The port holds what it held or more; on the timeout read_rs485 breaks
\* and read_rs232 returns None; sleep(1) lets 1 ms or more pass (any time
\* past the timeout is taken as timeout + 1).
SerialWait(t) ==
    /\ pc[t] = "wait"
    /\ LET f == frame[t] IN
       \E avail \in f.data..MaxBytes :
          IF avail > 0
          THEN /\ frame' = [frame EXCEPT ![t].data = avail]
               /\ pc' = [pc EXCEPT ![t] = "collect"]
               /\ UNCHANGED <<call, trace, result>>
          ELSE IF f.i > f.n
          THEN IF call[t].op = "read_rs485"
               THEN /\ pc' = [pc EXCEPT ![t] = "collect"]
                    /\ UNCHANGED <<call, frame, trace, result>>
               ELSE Ends(t, NoneV)
          ELSE /\ \E now \in (f.i + 1)..(f.n + 1) :
                     frame' = [frame EXCEPT ![t].i = now]
               /\ UNCHANGED <<pc, call, trace, result>>
    /\ UNCHANGED <<lockI2C, others, store, ncalls>>

\* (read_rs485: sleep(10); msg = []) n = available()
SerialAvailable(t) ==
    /\ pc[t] = "collect"
    /\ \E avail \in frame[t].data..MaxBytes :
          frame' = [frame EXCEPT ![t].data = avail]
    /\ pc' = [pc EXCEPT ![t] = "return"]
    /\ UNCHANGED <<lockI2C, others, store, call, trace, result, ncalls>>

\* read_rs485: `if n>0: msg = self.rs485.read(n)`, `return msg`;
\* read_rs232: `msg = self.rs232.read(n)`, `return msg`
SerialResult(op, n) ==
    IF op = "read_rs485" /\ n = 0 THEN EmptyList ELSE Bytes(n)

SerialReturn(t) ==
    /\ pc[t] = "return"
    /\ Ends(t, SerialResult(call[t].op, frame[t].data))
    /\ UNCHANGED <<lockI2C, others, store, ncalls>>

NextSerial ==
    \/ \E timeout \in 0..MaxTimeout : call_read_rs485(MainThread, timeout)
    \/ \E timeout \in 0..MaxTimeout : call_read_rs232(MainThread, timeout)
    \/ Acquire(MainThread)
    \/ GpioBody(MainThread)
    \/ Release(MainThread)
    \/ Rs485StartTimer(MainThread)
    \/ SerialWait(MainThread)
    \/ SerialAvailable(MainThread)
    \/ SerialReturn(MainThread)

SpecSerial == Init /\ [][NextSerial]_vars

----------------------------------------------------------------------------
(* Properties *)

\* thread t is inside a locked section: it has taken lockI2C and has a chip
\* or expander transaction, or the release, still to do
InLockedSection(t) == pc[t] \in {"set", "get", "gpio", "release"}

\* C1: while a thread is between acquiring and releasing lockI2C in a read
\* (the set, and every get of the burst), no other thread is inside a locked
\* section of a read or of a GPIO operation, so no other thread performs a
\* chip or expander transaction; and the thread inside holds the lock.
C1_MutualExclusion ==
    \A t \in Threads :
        InLockedSection(t) =>
            /\ lockI2C
            /\ \A u \in Threads \ {t} : ~InLockedSection(u)

\* a read_power burst under way with one sample taken, while the other
\* thread waits for the lock in a GPIO operation
C1_Witness ==
    \E t \in Threads, u \in Threads :
        /\ call[t].op = "read_power" /\ pc[t] = "get" /\ frame[t].i = 1
        /\ call[u].op \in GpioOps /\ pc[u] = "acquire"

\* C2: a read releases lockI2C on every exit path: whenever a read leaves
\* its locked section, by returning or by an exception of set or
\* get_raw_data, the lock is free afterwards.
C2_ReleasedOnEveryExit ==
    [][\A t \in Threads :
          (/\ call[t].op \in ReadOps
           /\ InLockedSection(t)
           /\ ~InLockedSection(t)') => ~lockI2C']_vars

\* C3: a config_adc_* call made while a read of the same channel is in
\* flight has no effect on that read: the value a converting read returns is
\* the one computed with the reference voltage of the gain the read applied
\* to the chip.
C3_VrefOfAppliedGain ==
    [][\A t \in Threads :
          (/\ call[t].op \in ReadOps
           /\ ~call[t].raw
           /\ pc[t] = "convert"
           /\ pc'[t] = "idle")
          => result'[t] = ReadResult(call[t].op, call[t].raw,
                                     call[t].electric_value, frame[t],
                                     Vref(frame[t].pga),
                                     ConversionOf(call[t].op, call[t].ch))]_vars

\* every stored configuration record
ConfigRecords ==
    {adc_config[c] : c \in 1..4} \cup {adc_resistive_config[c] : c \in 1..4}
    \cup {adc_current_config[c] : c \in 1..3}

\* C4: after any sequence of completed config_adc_* calls, accepted or
\* rejected, every channel of every ADC has a stored PGA in 0..7, a stored
\* SPS in 0..7 and a stored VREF equal to VREF_ADS1015[PGA].
C4_StoredConfigConsistent ==
    \A r \in ConfigRecords :
        /\ r.PGA \in 0..7
        /\ r.SPS \in 0..7
        /\ r.VREF = VREF_ADS1015[r.PGA + 1]

\* an accepted config_adc_current(3, 7, 0) followed by a rejected call
C4_Witness ==
    /\ adc_current_config[3] = [PGA |-> 7, SPS |-> 0, VREF |-> 256]
    /\ call[MainThread].op \in {"config_adc_010_420", "config_adc_resistive",
                                "config_adc_current"}
    /\ result[MainThread] = Raise("ValueError")

ConfigStores == <<adc_config, adc_resistive_config, adc_current_config>>

\* C5: config_adc_010_420 and config_adc_resistive fail when ch is not in
\* 1..4, config_adc_current when ch is not in 1..3, all three when pga or sps
\* is not in 0..7; and a failed call leaves every stored PGA, SPS and VREF
\* as it was.
C5_InvalidConfigRejected ==
    [][\A ch \in ChIn, pga \in PgaIn, sps \in SpsIn :
          LET bad(nch) == ch \notin 1..nch \/ pga \notin 0..7 \/ sps \notin 0..7
              failed == /\ result'[MainThread] = Raise("ValueError")
                        /\ UNCHANGED ConfigStores
          IN  /\ config_adc_010_420(MainThread, ch, pga, sps) /\ bad(4) => failed
              /\ config_adc_resistive(MainThread, ch, pga, sps) /\ bad(4) => failed
              /\ config_adc_current(MainThread, ch, pga, sps) /\ bad(3) => failed]_vars

\* config_adc_current refused for channel 4, after a call that had stored a
\* gain for channel 1 of the 0-10V / 4-20mA ADC
C5_Witness ==
    /\ call[MainThread].op = "config_adc_current"
    /\ call[MainThread].ch = 4
    /\ result[MainThread] = Raise("ValueError")
    /\ adc_config[1] = [PGA |-> 7, SPS |-> 0, VREF |-> 256]

\* the arguments of the read that thread t called last are refused ones
RefusedRead(t) ==
    /\ call[t].op \in ReadOps
    /\ \/ call[t].raw /\ call[t].electric_value
       \/ call[t].ch \notin 1..NChannels(call[t].op)

\* C6: a read called with both raw and electric_value set, or with a
\* channel outside the range of its ADC, fails before lockI2C is acquired
\* and before any chip transaction, and leaves the lock and every stored
\* record as they were.
C6_RefusedReadTouchesNothing ==
    /\ [](\A t \in Threads :
            RefusedRead(t) =>
                /\ pc[t] = "idle"
                /\ trace[t] = <<>>
                /\ result[t] \in {Raise("UnsupportedError"), Raise("ValueError")})
    /\ [][\A t \in Threads :
            (RefusedRead(t)' /\ (call'[t] # call[t] \/ result'[t] # result[t]))
            => UNCHANGED <<lockI2C, store>>]_vars

\* read_power refused for its flags while the other thread is inside a
\* locked section
C6_Witness ==
    \E t \in Threads, u \in Threads :
        /\ call[t].op = "read_power"
        /\ pc[t] = "idle"
        /\ result[t] = Raise("UnsupportedError")
        /\ InLockedSection(u)
        /\ lockI2C

\* the records of list that differ after the step: none, unless the call
\* just made is op, and then at most that of channel ch
OnlyChanges(list, listAfter, op, madeOp, ch) ==
    \A c \in DOMAIN list :
        listAfter[c] # list[c] => madeOp = op /\ c = ch

\* C7: a config_adc_* or set_conversion_* call for channel ch of one ADC
\* kind changes only that channel's record of that kind: every other
\* channel's record, and every record of the other kinds, is unchanged.
C7_OnlyOwnRecordChanges ==
    [][ncalls' = ncalls + 1 =>
          LET op == call'[MainThread].op
              ch == call'[MainThread].ch
          IN  /\ OnlyChanges(adc_config, adc_config', "config_adc_010_420", op, ch)
              /\ OnlyChanges(adc_conversion, adc_conversion',
                             "set_conversion_010_420", op, ch)
              /\ OnlyChanges(adc_resistive_config, adc_resistive_config',
                             "config_adc_resistive", op, ch)
              /\ OnlyChanges(adc_resistive_conversion, adc_resistive_conversion',
                             "set_conversion_resistive", op, ch)
              /\ OnlyChanges(adc_current_config, adc_current_config',
                             "config_adc_current", op, ch)
              /\ OnlyChanges(adc_current_conversion, adc_current_conversion',
                             "set_conversion_current", op, ch)]_vars

\* channel 2 of the 0-10V / 4-20mA ADC has a new gain and new linear
\* parameters, channel 1 still has the records of construction
C7_Witness ==
    /\ adc_config[2] = [PGA |-> 0, SPS |-> 0, VREF |-> 6144]
    /\ adc_conversion[2] # DefaultLinear
    /\ adc_config[1] = DefaultConfig
    /\ adc_conversion[1] = DefaultLinear

\* thread t takes the step on which its read returns a value
ReadReturns(t) ==
    /\ call[t].op \in ReadOps
    /\ pc[t] = "convert"
    /\ pc'[t] = "idle"
    /\ IsNum(result'[t])

IsGet(ev) == ev.e = "get"
\* the raw codes the chip returned to thread t's call, in order
Samples(t) ==
    LET gets == SelectSeq(trace[t], IsGet)
    IN  [k \in 1..Len(gets) |-> gets[k].v]

SeqMax(q) == CHOOSE x \in {q[k] : k \in 1..Len(q)} : \A k \in 1..Len(q) : q[k] <= x
SeqMin(q) == CHOOSE x \in {q[k] : k \in 1..Len(q)} : \A k \in 1..Len(q) : q[k] >= x

\* what the chip gave the call: the sample of a single read, the burst of
\* read_power reduced as its loop reduces it
RECURSIVE Reduced(_, _)
Reduced(f, q) == IF q = <<>> THEN f ELSE Reduced(NextSample(f, Head(q)), Tail(q))
Acquired(t) ==
    IF call[t].op = "read_power"
    THEN LET f == Reduced(NoFrame, Samples(t)) IN f.M - f.m
    ELSE Samples(t)[1]

IsBurst(tr, n) ==
    /\ Len(tr) = n + 3
    /\ tr[1].e = "acquire"
    /\ tr[2].e = "set"
    /\ \A k \in 3..(n + 2) : tr[k].e = "get"
    /\ tr[n + 3].e = "release"

\* C9: a read_power call that returns a value has done, in one hold of
\* lockI2C, exactly one set followed by exactly N_SAMPLES get_raw_data
\* reads, N_SAMPLES being the count stored for the channel; no value comes
\* from a partial burst.
C9_WholeBurst ==
    [][\A t \in Threads :
          ReadReturns(t) /\ call[t].op = "read_power"
          => IsBurst(trace[t], adc_current_conversion[call[t].ch].N_SAMPLES)]_vars

\* read_power has returned its electric value after a burst of two samples,
\* one of them negative
C9_Witness ==
    \E t \in Threads :
        /\ call[t].op = "read_power"
        /\ call[t].electric_value
        /\ pc[t] = "idle"
        /\ adc_current_conversion[1].N_SAMPLES = 2
        /\ result[t] = convert_current(1003, 2048, 1, 2000)

\* C10: the peak-to-peak value read_power returns with raw=True is the
\* maximum minus the minimum of the samples of the burst, for every burst,
\* those with only negative samples included.
C10_PeakToPeakIsMaxMinusMin ==
    [][\A t \in Threads :
          (/\ ReadReturns(t)
           /\ call[t].op = "read_power"
           /\ call[t].raw
           /\ Samples(t) # <<>>)
          => result'[t] = Num(SeqMax(Samples(t)) - SeqMin(Samples(t)))]_vars

\* C11: linear scaling returns under_x as stored for x < x_min and over_x
\* as stored for x > x_max, with no offset added; otherwise, x = x_min and
\* x = x_max included, the result y satisfies
\* (y - offset - y_min) * (x_max - x_min) = (x - x_min) * (y_max - y_min);
\* the thresholds are those of the input range.  With range 0..10, y 0..100,
\* offset 0: 5 gives 50.
C11_LinearScaling ==
    /\ \A t \in Threads :
          call[t].op = "_scale_010_420" =>
              LET c == call[t]
                  x == c.value
                  y == result[t]
              IN  IF RLt(x, Num(c.x_min)) THEN y = c.p.UNDER_X
                  ELSE IF RLt(Num(c.x_max), x) THEN y = c.p.OVER_X
                  ELSE /\ IsNum(y)
                       /\ RMul(RSub(RSub(y, c.p.OFFSET), c.p.Y_MIN),
                               Num(c.x_max - c.x_min))
                          = RMul(RSub(x, Num(c.x_min)), RSub(c.p.Y_MAX, c.p.Y_MIN))
    /\ scale_010_420(Num(5), 0, 10, Num(0), Num(100), Num(0), Num(0), Num(100))
       = Num(50)

\* 11 on the range 0..10 with y from 30 down to -10 and offset 3, and no
\* over_x stored: None comes back
C11_Witness ==
    /\ call[MainThread].op = "_scale_010_420"
    /\ call[MainThread].value = Num(11)
    /\ call[MainThread].x_max = 10
    /\ call[MainThread].p.OFFSET = Num(3)
    /\ call[MainThread].p.OVER_X = NoneV
    /\ result[MainThread] = NoneV

\* the table as _scale_resistive looks it up: first entry against last,
\* once, and the order turned when the first is the smaller
Flipped(tb) == [j \in 1..Len(tb) |-> tb[Len(tb) + 1 - j]]
Normalized(tb) == IF RLt(tb[1], tb[Len(tb)]) THEN Flipped(tb) ELSE tb

\* thread t has called _scale_resistive with a table that has entries
Looked(t) == call[t].op = "_scale_resistive" /\ Len(call[t].p.REF_TABLE) > 0

\* C12: when the value cannot be found on the lookup table, because it is
\* >= the first entry of the normalized table, or below every later entry
\* (for a descending table: below the last entry) so that no pair of the scan
\* holds it, the stored out_of_range is returned as it is, None included.
C12_OutOfRangeReturned ==
    \A t \in Threads :
        Looked(t) =>
            LET tb == Normalized(call[t].p.REF_TABLE)
                x == call[t].value
            IN  (\/ RGe(x, tb[1])
                 \/ \A k \in 2..Len(tb) : RLt(x, tb[k]))
                => result[t] = call[t].p.OUT_OF_RANGE

\* 1/2 looked up on the table 2, 3, 4, which is below its last entry once
\* the table is turned, with None stored as out_of_range
C12_Witness ==
    /\ Looked(MainThread)
    /\ call[MainThread].p.REF_TABLE = <<Num(2), Num(3), Num(4)>>
    /\ call[MainThread].value = Rat(1, 2)
    /\ call[MainThread].p.V_MIN = Num(-5)
    /\ call[MainThread].p.OUT_OF_RANGE = NoneV
    /\ result[MainThread] = NoneV

\* the value at x of the straight line through (x1, y1) and (x2, y2)
OnLine(x1, y1, x2, y2, x, y) ==
    RMul(RSub(y, y1), RSub(x2, x1)) = RMul(RSub(y2, y1), RSub(x, x1))

\* the table value v_min + delta*i of Python index i
Level(p, i) == RAdd(p.V_MIN, RMul(p.DELTA, Num(i)))

Descending(tb) == \A k \in 1..(Len(tb) - 1) : RLt(tb[k + 1], tb[k])
Ascending(tb) == \A k \in 1..(Len(tb) - 1) : RLt(tb[k], tb[k + 1])

\* C13: when the lookup interpolates at pair i of the normalized
\* (descending) table, that is table[i+1] <= value < table[i], the result is
\* the value at the measured value of the straight line through
\* (table[i], v_min + delta*i) and (table[i+1], v_min + delta*(i+1)); table
\* [1,2,3,4], v_min 0, delta 10, value 3.5 gives 5.
C13_Interpolation ==
    /\ \A t \in Threads :
          Looked(t) /\ Descending(Normalized(call[t].p.REF_TABLE)) =>
              LET tb == Normalized(call[t].p.REF_TABLE)
                  x == call[t].value
                  p == call[t].p
              IN  \A i \in 0..(Len(tb) - 2) :
                      RGe(x, tb[i + 2]) /\ RLt(x, tb[i + 1]) =>
                          /\ IsNum(result[t])
                          /\ OnLine(tb[i + 1], Level(p, i), tb[i + 2], Level(p, i + 1),
                                    x, result[t])
    /\ scale_resistive(Rat(7, 2), Num(0), <<Num(1), Num(2), Num(3), Num(4)>>,
                       Num(10), Num(0), NoneV) = Num(5)

\* 5/2 on the ascending table 1, 3, 4 with v_min -5 and delta 10: between
\* 3 and 1 of the turned table, pair 1, a quarter of the way from 5 to 15
C13_Witness ==
    /\ Looked(MainThread)
    /\ call[MainThread].p.REF_TABLE = <<Num(1), Num(3), Num(4)>>
    /\ call[MainThread].value = Rat(5, 2)
    /\ call[MainThread].p.V_MIN = Num(-5)
    /\ result[MainThread] = Rat(15, 2)

\* C14: the lookup gives the same result for a monotonic table supplied in
\* ascending order as for the same table supplied reversed, the other
\* arguments being equal.
C14_OrderOfTableIrrelevant ==
    \A t \in Threads :
        Looked(t) /\ Ascending(call[t].p.REF_TABLE) =>
            LET p == call[t].p
            IN  result[t] = scale_resistive(call[t].value, p.V_MIN,
                                            Flipped(p.REF_TABLE), p.DELTA, p.OFFSET,
                                            p.OUT_OF_RANGE)

\* the ascending table 1, 2, 4 looked up at 3: 5, as for 4, 2, 1
C14_Witness ==
    /\ Looked(MainThread)
    /\ call[MainThread].p.REF_TABLE = <<Num(1), Num(2), Num(4)>>
    /\ call[MainThread].value = Num(3)
    /\ call[MainThread].p.V_MIN = Num(0)
    /\ result[MainThread] = Num(5)

\* the Python indices i of the pairs of tb, in scan order, that satisfy
\* a test on (value, tb[i], tb[i+1])
Holds(tb, x) == {i \in 0..(Len(tb) - 2) : RGe(x, tb[i + 2])}
BracketsAsStated(tb, x) ==
    {i \in 0..(Len(tb) - 2) : RLt(x, tb[i + 2]) /\ RGe(x, tb[i + 1])}
First(S) == CHOOSE i \in S : \A j \in S : i <= j

\* the lookup of thread t interpolated at pair i
InterpolatedAt(t, tb, i) ==
    /\ IsNum(result[t])
    /\ OnLine(tb[i + 1], Level(call[t].p, i), tb[i + 2], Level(call[t].p, i + 1),
              call[t].value, result[t])

\* C19, as stated: for a value below table[0] of the normalized table, the
\* pair interpolated is the first pair in scan order with
\* value < table[i+1] and value >= table[i].
C19_FirstPairAsStated ==
    \A t \in Threads :
        Looked(t) =>
            LET tb == Normalized(call[t].p.REF_TABLE)
                x == call[t].value
            IN  RLt(x, tb[1]) /\ IsNum(result[t]) =>
                    /\ BracketsAsStated(tb, x) # {}
                    /\ InterpolatedAt(t, tb, First(BracketsAsStated(tb, x)))

\* C19, amended: for a value below table[0] of the normalized table, the
\* pair interpolated is the first pair in scan order with
\* value >= table[i+1]; every pair before it has value < table[i+1], so in
\* a descending table it holds the value: table[i+1] <= value < table[i].
C19_FirstPairInScanOrder ==
    \A t \in Threads :
        Looked(t) =>
            LET tb == Normalized(call[t].p.REF_TABLE)
                x == call[t].value
            IN  RLt(x, tb[1]) /\ Holds(tb, x) # {} =>
                    LET i == First(Holds(tb, x))
                    IN  /\ InterpolatedAt(t, tb, i)
                        /\ RLt(x, tb[i + 1])

\* 5/2 on the table 4, 1, 3, which is not monotonic: pairs 0 and 1 both
\* have value >= table[i+1], and pair 0 (4, 1) is the one interpolated
C19_Witness ==
    /\ Looked(MainThread)
    /\ call[MainThread].p.REF_TABLE = <<Num(4), Num(1), Num(3)>>
    /\ call[MainThread].value = Rat(5, 2)
    /\ call[MainThread].p.V_MIN = Num(0)
    /\ result[MainThread] = Num(5)

\* C20: the lookup table stored for each resistive channel has at least 2
\* entries, from construction onward and after any sequence of
\* set_conversion_resistive calls.
C20_TableHasTwoEntries ==
    \A c \in 1..4 : Len(adc_resistive_conversion[c].REF_TABLE) >= 2

\* C15: no read result is cached: every read_010, read_420 or
\* read_resistive call that returns a value has done, in its own hold of
\* the lock, one chip set with the gain and rate stored for the channel at
\* that moment and one get_raw_data after it, and returns the value computed
\* from that sample with the reference voltage and conversion record stored
\* when it returns.
C15_FreshAcquisition ==
    [][\A t \in Threads :
          LET c == call[t] IN
          /\ (c.op \in ReadOps /\ pc[t] = "set" /\ pc'[t] = "get")
             => /\ frame'[t].pga = ConfigOf(c.op, c.ch).PGA
                /\ frame'[t].sps = ConfigOf(c.op, c.ch).SPS
          /\ (ReadReturns(t) /\ c.op # "read_power")
             => /\ IsBurst(trace[t], 1)
                /\ result'[t] =
                       ReadResult(c.op, c.raw, c.electric_value,
                                  [NoFrame EXCEPT !.data = Samples(t)[1]],
                                  ConfigOf(c.op, c.ch).VREF,
                                  ConversionOf(c.op, c.ch))]_vars

\* a read_420 that has set the chip to gain 0, stored by a config_adc_010_420
\* call, and has its sample
C15_Witness ==
    /\ call[Reader].op = "read_420"
    /\ pc[Reader] = "release"
    /\ frame[Reader].pga = 0
    /\ frame[Reader].sps = 0
    /\ adc_config[1] = [PGA |-> 0, SPS |-> 0, VREF |-> 6144]
    /\ call[Writer].op = "config_adc_010_420"

\* the chip operations of the call of thread t so far
Count(t, e) == Len(SelectSeq(trace[t], LAMBDA ev : ev.e = e))

\* C16: a read never retries a failed chip transaction: a call does at most
\* one set and at most its burst of get_raw_data, each step in the locked
\* section is either a chip operation that succeeds and is followed by the
\* next one, or a failure that ends the call at once with an error instead
\* of a value.
C16_NoRetry ==
    /\ [](\A t \in Threads :
            call[t].op \in ReadOps =>
                /\ Count(t, "set") <= 1
                /\ Count(t, "get") <= frame[t].n)
    /\ [][\A t \in Threads :
            (call[t].op \in ReadOps /\ pc[t] \in {"set", "get"} /\ pc'[t] = "idle")
            => /\ result'[t] = Raise("IOError")
               /\ trace'[t] = <<>>]_vars

\* read_power has failed inside its locked section, while the other thread
\* waits for the lock
C16_Witness ==
    \E t \in Threads, u \in Threads :
        /\ call[t].op = "read_power"
        /\ pc[t] = "idle"
        /\ result[t] = Raise("IOError")
        /\ lockI2C
        /\ pc[u] = "acquire"

\* C17: a config_adc_* call repeated with the same arguments leaves the
\* store as the first call left it.
C17_ConfigIdempotent ==
    [][\A ch \in ChIn, pga \in PgaIn, sps \in SpsIn :
          /\ config_adc_010_420(MainThread, ch, pga, sps) /\ ConfigAccepted(4, ch, pga, sps)
             => SetItem(adc_config', ch, ConfigRecord(adc_config'[ch], pga, sps))
                = adc_config'
          /\ config_adc_resistive(MainThread, ch, pga, sps) /\ ConfigAccepted(4, ch, pga, sps)
             => SetItem(adc_resistive_config', ch,
                        ConfigRecord(adc_resistive_config'[ch], pga, sps))
                = adc_resistive_config'
          /\ config_adc_current(MainThread, ch, pga, sps) /\ ConfigAccepted(3, ch, pga, sps)
             => SetItem(adc_current_config', ch,
                        ConfigRecord(adc_current_config'[ch], pga, sps))
                = adc_current_config']_vars

\* channel 2 of the resistive ADC configured by two calls that left only
\* its record changed, the second of them accepted
C17_Witness ==
    /\ ncalls = 2
    /\ call[MainThread].op = "config_adc_resistive"
    /\ call[MainThread].ch = 2
    /\ result[MainThread] = NoneV
    /\ adc_resistive_config[2] = [PGA |-> 7, SPS |-> 0, VREF |-> 256]
    /\ adc_resistive_config[1] = DefaultConfig
    /\ adc_config = [c \in 1..4 |-> DefaultConfig]
    /\ adc_current_config = [c \in 1..3 |-> DefaultConfig]
    /\ adc_resistive_conversion = [c \in 1..4 |-> DefaultResistive]

\* C18: read_rs485 returns None when no data becomes available on the port
\* before the timeout expires.
C18_NoneOnTimeout ==
    [][\A t \in Threads :
          (/\ call[t].op = "read_rs485"
           /\ pc[t] = "return"
           /\ pc'[t] = "idle"
           /\ frame[t].i > frame[t].n
           /\ frame[t].data = 0)
          => result'[t] = NoneV]_vars

\* C21: after any sequence of set_conversion_current calls, the sample count
\* and the coil-turn count stored for each current channel are greater than 0.
C21_CountsPositive ==
    \A c \in 1..3 :
        /\ adc_current_conversion[c].N_SAMPLES > 0
        /\ adc_current_conversion[c].NCOIL > 0

----------------------------------------------------------------------------
(* Resistive channels 1 and 2 given conversion parameters, then read by    *)
(* one thread.                                                             *)

\* ref_tables around the resistances the codes below convert to, one
\* ascending and one descending
OffsetTables == {<<Num(1), Num(2), Num(3), Num(4)>>, <<Num(4), Num(2), Num(1)>>}
OffsetParams ==
    [V_MIN : {Num(0)}, REF_TABLE : OffsetTables, DELTA : {Num(10)},
     OFFSET : {Num(0), Num(3)}, OUT_OF_RANGE : {Num(-1)}]
\* codes the chip returns: with VREF 2.048 V they convert to about 1.0, 2.0
\* and 3.1 ohm, and to values below and above both tables
OffsetCodes == {-3, 75, 147, 220, 1000}

NextOffset ==
    \/ \E ch \in {1, 2}, p \in OffsetParams :
          set_conversion_resistive(MainThread, ch, p) /\ UNCHANGED ncalls
    \/ \E ch \in {1, 2}, raw \in BOOLEAN, ev \in BOOLEAN :
          ReadCall(MainThread, "read_resistive", ch, raw, ev)
    \/ Step(MainThread, OffsetCodes)

SpecOffset == BusState(1) /\ [][NextOffset]_vars

\* channel o holds what channel ch holds, up to the offset of the conversion
SameButOffset(ch, o) ==
    /\ adc_resistive_config[o] = adc_resistive_config[ch]
    /\ [adc_resistive_conversion[o] EXCEPT !.OFFSET = Num(0)]
          = [adc_resistive_conversion[ch] EXCEPT !.OFFSET = Num(0)]

----------------------------------------------------------------------------
(* Construction, FourZeroBox.__init__, followed by operations of the       *)
(* constructing thread.  The run starts when the three locks exist and     *)
(* nothing else does; the transactions of the construction succeed.        *)

NewState ==
    /\ lockI2C = FALSE
    /\ lockSPI = FALSE
    /\ lockFLASH = FALSE
    /\ net_initialized = FALSE
    /\ iface_en = FALSE
    /\ adc_config = <<>>
    /\ adc_conversion = <<>>
    /\ adc_resistive_config = <<>>
    /\ adc_resistive_conversion = <<>>
    /\ adc_current_config = <<>>
    /\ adc_current_conversion = <<>>
    /\ pc = [t \in Threads |-> IF t = MainThread THEN "init_port_expander" ELSE "idle"]
    /\ call = [t \in Threads |->
                 IF t = MainThread THEN [NoCall EXCEPT !.op = "__init__"] ELSE NoCall]
    /\ frame = [t \in Threads |-> NoFrame]
    /\ trace = [t \in Threads |-> <<>>]
    /\ result = [t \in Threads |-> NoneV]
    /\ ncalls = 0

\* _init_port_expander: the expander is added, then gpio.low, gpio.mode and
\* gpio.high on its pins, from SNK_1 to LED_B; no lock is taken
init_port_expander(t) ==
    /\ pc[t] = "init_port_expander"
    /\ Log(t, "gpio", 0)
    /\ pc' = [pc EXCEPT ![t] = "init_adc"]
    /\ frame' = [frame EXCEPT ![t].i = 1]
    /\ UNCHANGED <<lockI2C, others, store, call, result, ncalls>>

\* _init_adc_010_420, _init_adc_resistive, _init_adc_current, in this order:
\* self.lockI2C.acquire()
InitAdcAcquire(t) ==
    /\ pc[t] = "init_adc"
    /\ acquire
    /\ Log(t, "acquire", 0)
    /\ pc' = [pc EXCEPT ![t] = "init_adc_chip"]
    /\ UNCHANGED <<others, store, call, frame, result, ncalls>>

\* ads1015.ADS1015(I2C0, addr=..), then the two lists of the ADC
InitAdcChip(t) ==
    /\ pc[t] = "init_adc_chip"
    /\ Log(t, "chip", frame[t].i)
    /\ CASE frame[t].i = 1 ->
              /\ adc_config' = [c \in 1..4 |-> DefaultConfig]
              /\ adc_conversion' = [c \in 1..4 |-> DefaultLinear]
              /\ UNCHANGED <<adc_resistive_config, adc_resistive_conversion,
                             adc_current_config, adc_current_conversion>>
         [] frame[t].i = 2 ->
              /\ adc_resistive_config' = [c \in 1..4 |-> DefaultConfig]
              /\ adc_resistive_conversion' = [c \in 1..4 |-> DefaultResistive]
              /\ UNCHANGED <<adc_config, adc_conversion,
                             adc_current_config, adc_current_conversion>>
         [] OTHER ->
              /\ adc_current_config' = [c \in 1..3 |-> DefaultConfig]
              /\ adc_current_conversion' = [c \in 1..3 |-> DefaultCurrent]
              /\ UNCHANGED <<adc_config, adc_conversion,
                             adc_resistive_config, adc_resistive_conversion>>
    /\ pc' = [pc EXCEPT ![t] = "init_adc_release"]
    /\ UNCHANGED <<lockI2C, others, call, frame, result, ncalls>>

\* self.lockI2C.release(); after the third ADC the construction is over
InitAdcRelease(t) ==
    /\ pc[t] = "init_adc_release"
    /\ release
    /\ IF frame[t].i < 3
       THEN /\ Log(t, "release", 0)
            /\ frame' = [frame EXCEPT ![t].i = @ + 1]
            /\ pc' = [pc EXCEPT ![t] = "init_adc"]
            /\ UNCHANGED <<call, result>>
       ELSE Ends(t, NoneV)
    /\ UNCHANGED <<others, store, ncalls>>

\* the reads of the constructed object the run makes
NewReads == {"read_010", "read_resistive"}

NextNew ==
    \/ init_port_expander(MainThread)
    \/ InitAdcAcquire(MainThread)
    \/ InitAdcChip(MainThread)
    \/ InitAdcRelease(MainThread)
    \/ \E g \in GpioCalls : GpioCall(MainThread, g[1], g[2], g[3])
    \/ \E op \in NewReads, ch \in {1, 4}, raw \in BOOLEAN :
          ReadCall(MainThread, op, ch, raw, FALSE)
    \/ Step(MainThread, RawCodes)
    \/ GpioBody(MainThread)
    \/ GpioReturn(MainThread)

SpecNew == NewState /\ [][NextNew]_vars

\* the transactions with an ADC chip or with a pin of the GPIO expander
BusAccess == {"chip", "set", "get", "gpio"}

\* C23: every access to an ADC chip (its construction, set, get_raw_data) or
\* to a pin of the GPIO expander is made by a thread that holds lockI2C:
\* the thread took the lock earlier in the call and has not released it.
C23_AccessUnderLock ==
    [][\A t \in Threads :
          (/\ Len(trace'[t]) = Len(trace[t]) + 1
           /\ trace'[t][Len(trace'[t])].e \in BusAccess)
          => /\ lockI2C
             /\ \E i \in 1..Len(trace[t]) :
                   /\ trace[t][i].e = "acquire"
                   /\ \A j \in (i + 1)..Len(trace[t]) : trace[t][j].e # "release"]_vars

\* C24: the resistive lookup never divides by zero.  For every non-empty
\* table, monotonic or not, with or without equal adjacent entries, and
\* every value: the lookup does not raise ZeroDivisionError, and when it
\* interpolates, at the first pair i that is not skipped,
\* table[i+1] <= value < table[i] holds in the normalized table, so the two
\* entries differ.
C24_NoZeroDivision ==
    \A t \in Threads :
        Looked(t) =>
            LET tb == Normalized(call[t].p.REF_TABLE)
                x == call[t].value
            IN  /\ result[t] # Raise("ZeroDivisionError")
                /\ (IsNum(result[t]) /\ result[t] # call[t].p.OUT_OF_RANGE) =>
                      /\ Holds(tb, x) # {}
                      /\ LET i == First(Holds(tb, x))
                         IN  /\ RGe(x, tb[i + 2])
                             /\ RLt(x, tb[i + 1])
                             /\ tb[i + 2] # tb[i + 1]

\* a table that is not monotonic and has two equal adjacent entries, with a
\* value the lookup interpolates past the equal pair
C24_Witness ==
    /\ Looked(MainThread)
    /\ call[MainThread].p.REF_TABLE = <<Num(3), Num(3), Num(1)>>
    /\ call[MainThread].value = Num(2)
    /\ call[MainThread].p.OUT_OF_RANGE = NoneV
    /\ IsNum(result[MainThread])

\* the lookups the claim is about: a normalized table that is strictly
\* descending and has at least two entries
StrictLookup(t) ==
    /\ Looked(t)
    /\ Len(call[t].p.REF_TABLE) >= 2
    /\ Descending(Normalized(call[t].p.REF_TABLE))

\* what the claim says of one lookup: the sentinel, or a number in
\* (v_min, v_min + delta*(n-1)]; the last entry gives v_min + delta*(n-1),
\* entry 0 gives the sentinel, and v_min is never returned
RangeOfResult(t) ==
    LET p == call[t].p
        tb == Normalized(p.REF_TABLE)
        n == Len(tb)
        x == call[t].value
        r == result[t]
    IN  /\ \/ r = p.OUT_OF_RANGE
           \/ /\ IsNum(r)
              /\ RGt(r, p.V_MIN)
              /\ RGe(Level(p, n - 1), r)
        /\ x = tb[n] => r = Level(p, n - 1)
        /\ x = tb[1] => r = p.OUT_OF_RANGE
        /\ r # p.V_MIN

\* C25 as stated: for a strictly descending normalized table of n >= 2
\* entries and delta >= 0, every result that is not the sentinel lies in
\* (v_min, v_min + delta*(n-1)].
C25_RangeAsStated ==
    \A t \in Threads :
        (StrictLookup(t) /\ RGe(call[t].p.DELTA, Num(0))) => RangeOfResult(t)

\* C25, amended: the same for delta > 0.  With delta = 0 every interpolated
\* result is v_min itself.
C25_RangeForPositiveDelta ==
    \A t \in Threads :
        /\ (StrictLookup(t) /\ RGt(call[t].p.DELTA, Num(0))) => RangeOfResult(t)
        /\ (StrictLookup(t) /\ call[t].p.DELTA = Num(0) /\ IsNum(result[t])
              /\ result[t] # call[t].p.OUT_OF_RANGE)
           => result[t] = call[t].p.V_MIN

\* an ascending table of three entries, looked up at its smallest entry: the
\* result is v_min + 2*delta
C25_Witness ==
    /\ StrictLookup(MainThread)
    /\ call[MainThread].p.REF_TABLE = <<Num(1), Num(2), Num(4)>>
    /\ call[MainThread].value = Num(1)
    /\ call[MainThread].p.V_MIN = Num(-5)
    /\ call[MainThread].p.DELTA = Num(10)
    /\ result[MainThread] = Num(15)

----------------------------------------------------------------------------
(* LED patterns, pulses, network, RS485 writes, CAN and flash operations.  *)
(* sleep() is part of the step before it.                                  *)

\* the value logged with the acquire and the release of each lock
LockId == [I2C |-> 0, SPI |-> 1, FLASH |-> 2]

\* a call that starts at position first
Begin(t, c, first) ==
    /\ pc[t] = "idle"
    /\ call' = [call EXCEPT ![t] = c]
    /\ frame' = [frame EXCEPT ![t] = NoFrame]
    /\ trace' = [trace EXCEPT ![t] = <<>>]
    /\ result' = [result EXCEPT ![t] = Raise("running")]
    /\ pc' = [pc EXCEPT ![t] = first]

\* error_sys(), error_connect(), error_custom(color, duration, n_pulses):
\* `if color not in LEDS: raise ValueError` in error_custom alone
BlinkCall(t, op, color, n_pulses) ==
    /\ Enter(t, [NoCall EXCEPT !.op = op, !.ch = n_pulses, !.color = color],
             IF op = "error_custom" /\ color \notin DOMAIN LEDS
             THEN "ValueError" ELSE "no")
    /\ UNCHANGED <<lockI2C, others, store, ncalls>>

BlinkFailsUncaught(t) ==
    /\ Ends(t, Raise("IOError"))
\* a gpio call of the pattern raises: `except Exception as e: pass` swallows
\* the exception and the call goes on to lockI2C.release()
BlinkFails(t) ==
    /\ Log(t, "except", 0)
    /\ pc' = [pc EXCEPT ![t] = "release"]
    /\ UNCHANGED <<call, frame, result>>

\* inside `try`: `for p in LEDS[..]: gpio.low(p)`, then sleep
BlinkLow(t) ==
    /\ pc[t] = "low"
    /\ \/ /\ Log(t, "gpio", 0)
          /\ pc' = [pc EXCEPT ![t] = "high"]
          /\ UNCHANGED <<call, frame, result>>
       \/ BlinkFails(t)
    /\ UNCHANGED <<lockI2C, others, store, ncalls>>

\* `for p in LEDS['W']: gpio.high(p)`, then sleep, then the next cycle
BlinkHigh(t) ==
    /\ pc[t] = "high"
    /\ \/ /\ Log(t, "gpio", 1)
          /\ frame' = [frame EXCEPT ![t].i = @ + 1]
          /\ pc' = [pc EXCEPT ![t] = IF frame[t].i + 1 < Cycles(call[t])
                                     THEN "low" ELSE "release"]
          /\ UNCHANGED <<call, result>>
       \/ BlinkFails(t)
    /\ UNCHANGED <<lockI2C, others, store, ncalls>>

\* the pattern returns None after its release
BlinkReturn(t) ==
    /\ pc[t] = "convert"
    /\ call[t].op \in BlinkOps
    /\ Ends(t, NoneV)
    /\ UNCHANGED <<lockI2C, others, store, ncalls>>

\* pulse(color, duration), reverse_pulse(color, duration): two locked
\* sections with sleep(duration) between them
PulseOps == {"pulse", "reverse_pulse"}

PulseCall(t, op, color) ==
    /\ Enter(t, [NoCall EXCEPT !.op = op, !.color = color],
             IF color \notin DOMAIN LEDS THEN "ValueError" ELSE "no")
    /\ UNCHANGED <<lockI2C, others, store, ncalls>>

\* after the release of the first section: sleep(duration), then the
\* second acquire
PulseSleep(t) ==
    /\ pc[t] = "convert"
    /\ call[t].op \in PulseOps
    /\ frame[t].i = 0
    /\ frame' = [frame EXCEPT ![t].i = 1]
    /\ pc' = [pc EXCEPT ![t] = "acquire"]
    /\ UNCHANGED <<lockI2C, others, store, call, trace, result, ncalls>>

PulseReturn(t) ==
    /\ pc[t] = "convert"
    /\ call[t].op \in PulseOps
    /\ frame[t].i = 1
    /\ Ends(t, NoneV)
    /\ UNCHANGED <<lockI2C, others, store, ncalls>>

\* write_rs485(msg): self._rs485_transmit(), which takes lockI2C, drives
\* RS485EN high and releases; then self.rs485.write(msg)
call_write_rs485(t) ==
    /\ Enter(t, [NoCall EXCEPT !.op = "write_rs485"], "no")
    /\ UNCHANGED <<lockI2C, others, store, ncalls>>

Rs485Write(t) ==
    /\ pc[t] = "convert"
    /\ call[t].op = "write_rs485"
    /\ Ends(t, NoneV)
    /\ UNCHANGED <<lockI2C, others, store, ncalls>>

\* can_init, set_can_mode, can_init_mask, can_init_filter, can_send,
\* can_receive: lockSPI.acquire(), one call of the CAN driver,
\* lockSPI.release()
SpiOps == {"can_init", "set_can_mode", "can_init_mask", "can_init_filter",
           "can_send", "can_receive"}

SpiCall(t, op) ==
    /\ op \in SpiOps
    /\ Begin(t, [NoCall EXCEPT !.op = op], "acquire_spi")
    /\ UNCHANGED <<lockI2C, others, store, ncalls>>

SpiAcquire(t) ==
    /\ pc[t] = "acquire_spi"
    /\ lockSPI = FALSE
    /\ lockSPI' = TRUE
    /\ Log(t, "acquire", LockId.SPI)
    /\ pc' = [pc EXCEPT ![t] = "spi"]
    /\ UNCHANGED <<lockI2C, lockFLASH, net_initialized, iface_en, store, call,
                   frame, result, ncalls>>

\* self.can.send(..) and the like: it may raise, and nothing catches it
SpiBody(t) ==
    /\ pc[t] = "spi"
    /\ \/ /\ Log(t, "spi", 0)
          /\ pc' = [pc EXCEPT ![t] = "release_spi"]
          /\ UNCHANGED <<call, frame, result>>
       \/ Ends(t, Raise("IOError"))
    /\ UNCHANGED <<lockI2C, others, store, ncalls>>

\* self.lockSPI.release(), the last statement
SpiRelease(t) ==
    /\ pc[t] = "release_spi"
    /\ lockSPI' = FALSE
    /\ Ends(t, NoneV)
    /\ UNCHANGED <<lockI2C, lockFLASH, net_initialized, iface_en, store, ncalls>>

\* flash_write_buff: lockFLASH.acquire(), `try:` the stream operations
\* `except Exception: pass`, lockFLASH.release()
FlashOps == {"flash_write_buff"}

FlashCall(t, op) ==
    /\ op \in FlashOps
    /\ Begin(t, [NoCall EXCEPT !.op = op], "acquire_flash")
    /\ UNCHANGED <<lockI2C, others, store, ncalls>>

FlashAcquire(t) ==
    /\ pc[t] = "acquire_flash"
    /\ lockFLASH = FALSE
    /\ lockFLASH' = TRUE
    /\ Log(t, "acquire", LockId.FLASH)
    /\ pc' = [pc EXCEPT ![t] = "flash"]
    /\ UNCHANGED <<lockI2C, lockSPI, net_initialized, iface_en, store, call,
                   frame, result, ncalls>>

\* the stream operations succeed, or raise and are caught
FlashBody(t) ==
    /\ pc[t] = "flash"
    /\ \E ok \in BOOLEAN : Log(t, "flash", IF ok THEN 1 ELSE 0)
    /\ pc' = [pc EXCEPT ![t] = "release_flash"]
    /\ UNCHANGED <<lockI2C, others, store, call, frame, result, ncalls>>

FlashRelease(t) ==
    /\ pc[t] = "release_flash"
    /\ lockFLASH' = FALSE
    /\ Ends(t, NoneV)
    /\ UNCHANGED <<lockI2C, lockSPI, net_initialized, iface_en, store, ncalls>>

\* net_init(): `if self.net_initialized: raise NetworkInitializedException`
\* (a network driver is compiled in, so net_driver is set)
call_net_init(t) ==
    /\ Begin(t, [NoCall EXCEPT !.op = "net_init"], "net_init")
    /\ UNCHANGED <<lockI2C, others, store, ncalls>>

\* `try:` the driver's init() and set_link_info(), then
\* net_initialized = True; `except:` self.error_sys(), then
\* raise NetworkInitException
NetInitTry(t) ==
    /\ pc[t] = "net_init"
    /\ IF net_initialized
       THEN /\ Ends(t, Raise("NetworkInitializedException"))
            /\ UNCHANGED net_initialized
       ELSE \/ /\ net_initialized' = TRUE
               /\ Ends(t, NoneV)
            \/ /\ pc' = [pc EXCEPT ![t] = "acquire"]
               /\ UNCHANGED <<net_initialized, call, frame, trace, result>>
    /\ UNCHANGED <<lockI2C, lockSPI, lockFLASH, iface_en, store, ncalls>>

NetInitRaise(t) ==
    /\ pc[t] = "convert"
    /\ call[t].op = "net_init"
    /\ Ends(t, Raise("NetworkInitException"))
    /\ UNCHANGED <<lockI2C, others, store, ncalls>>

\* `for _ in range(5)` of net_connect
NetConnectAttempts == 5

\* net_connect(..): the flag is logged as the call finds it
call_net_connect(t) ==
    /\ pc[t] = "idle"
    /\ call' = [call EXCEPT ![t] = [NoCall EXCEPT !.op = "net_connect"]]
    /\ frame' = [frame EXCEPT ![t] = NoFrame]
    /\ trace' = [trace EXCEPT ![t] = <<Event("enabled", IF iface_en THEN 1 ELSE 0)>>]
    /\ result' = [result EXCEPT ![t] = Raise("running")]
    /\ pc' = [pc EXCEPT ![t] = "link"]
    /\ UNCHANGED <<lockI2C, others, store, ncalls>>

\* `except Exception: pass`: the next attempt, or the `else:` of the loop,
\* which calls self.error_connect()
AttemptsLeftAfterSix(f) == f.attempt + 1 < NetConnectAttempts + 1
AttemptsLeft(f) == f.attempt + 1 < NetConnectAttempts
Retry(t) ==
    IF AttemptsLeft(frame[t])
    THEN /\ frame' = [frame EXCEPT ![t].attempt = @ + 1]
         /\ pc' = [pc EXCEPT ![t] = "link"]
    ELSE /\ pc' = [pc EXCEPT ![t] = "acquire"]
         /\ UNCHANGED frame

\* `try:` self.net.link(..) or self.net.attach(apn), then the flag:
\* self._eth_en = True (_wifi_en, _gsm_en)
NetLink(t) ==
    /\ pc[t] = "link"
    /\ \/ /\ Log(t, "link", 1)
          /\ iface_en' = TRUE
          /\ pc' = [pc EXCEPT ![t] = "info"]
          /\ UNCHANGED frame
       \/ /\ Log(t, "link", 0)
          /\ Retry(t)
          /\ UNCHANGED iface_en
    /\ UNCHANGED <<lockI2C, lockSPI, lockFLASH, net_initialized, store, call,
                   result, ncalls>>

\* self._net_info(), then `break` and the return; _net_info reads
\* self.net.link_info(), which may raise
NetInfo(t) ==
    /\ pc[t] = "info"
    /\ \/ Ends(t, NoneV)
       \/ /\ Log(t, "info", 0)
          /\ Retry(t)
          /\ UNCHANGED <<call, result>>
    /\ UNCHANGED <<lockI2C, others, store, ncalls>>

\* after error_connect(): raise NetworkConnectionException
NetConnectRaise(t) ==
    /\ pc[t] = "convert"
    /\ call[t].op = "net_connect"
    /\ Ends(t, Raise("NetworkConnectionException"))
    /\ UNCHANGED <<lockI2C, others, store, ncalls>>

----------------------------------------------------------------------------
(* One thread calling net_init and net_connect *)

NextNet ==
    \/ call_net_init(MainThread)
    \/ NetInitTry(MainThread)
    \/ NetInitRaise(MainThread)
    \/ call_net_connect(MainThread)
    \/ NetLink(MainThread)
    \/ NetInfo(MainThread)
    \/ NetConnectRaise(MainThread)
    \/ Acquire(MainThread)
    \/ BlinkLow(MainThread)
    \/ BlinkHigh(MainThread)
    \/ Release(MainThread)

SpecNet == Init /\ [][NextNet]_vars

\* the events e of a trace, in order
Only(tr, e) == SelectSeq(tr, LAMBDA x : x.e = e)
\* every link() of the trace that succeeded was followed by a _net_info()
\* that failed, up to position k
AllFailed(tr, k) ==
    \A j \in 1..k :
        tr[j] = Event("link", 1) => (j < Len(tr) /\ tr[j + 1] = Event("info", 0))
\* the call of t ends in this step
EndsNow(t, op) == call[t].op = op /\ pc[t] # "idle" /\ pc'[t] = "idle"

\* C29: net_connect makes at most 5 attempts (link or attach, then the link
\* info), stops at the first attempt that completes without error, and only
\* when all 5 attempts have failed runs error_connect once and then raises
\* NetworkConnectionException; it never returns normally without a completed
\* attempt.
C29_AtMostFiveAttempts ==
    [][\A t \in Threads :
          /\ call'[t].op = "net_connect" => Len(Only(trace'[t], "link")) <= 5
          /\ EndsNow(t, "net_connect") =>
                LET tr == trace[t] IN
                \/ /\ result'[t] = NoneV
                   /\ pc[t] = "info"
                   /\ tr[Len(tr)] = Event("link", 1)
                   /\ AllFailed(tr, Len(tr) - 1)
                \/ /\ result'[t] = Raise("NetworkConnectionException")
                   /\ Len(Only(tr, "link")) = 5
                   /\ AllFailed(tr, Len(tr))
                   /\ Len(Only(tr, "acquire")) = 1
                   /\ Len(Only(tr, "release")) = 1
                   /\ tr[Len(tr)].e = "release"]_vars

\* net_connect has raised after attempts that failed at link() and
\* attempts that failed at _net_info()
C29_Witness ==
    /\ call[MainThread].op = "net_connect"
    /\ pc[MainThread] = "idle"
    /\ result[MainThread] = Raise("NetworkConnectionException")

\* C30: whenever a net_connect call that found the interface flag false ends
\* by raising NetworkConnectionException, the flag is still false.
C30_FlagFalseAfterFailure ==
    [][\A t \in Threads :
          (/\ EndsNow(t, "net_connect")
           /\ result'[t] = Raise("NetworkConnectionException")
           /\ trace[t][1] = Event("enabled", 0))
          => ~iface_en']_vars

----------------------------------------------------------------------------
(* Two threads on the three locks: one runs the LED patterns, the pulses,  *)
(* the network operations, the RS485 operations, a CAN and a flash         *)
(* operation; the other runs one operation on each lock beside it.         *)

MaxPulses == 2      \* largest n_pulses passed to error_custom
Other == "t2"

NextLocks ==
    \/ \E op \in {"error_sys", "error_connect"} : BlinkCall(MainThread, op, "", 0)
    \/ \E color \in {"B", "X"}, n \in 0..MaxPulses :
          BlinkCall(MainThread, "error_custom", color, n)
    \/ \E op \in PulseOps : PulseCall(MainThread, op, "G")
    \/ call_net_init(MainThread)
    \/ call_net_connect(MainThread)
    \/ call_write_rs485(MainThread)
    \/ call_read_rs485(MainThread, 0)
    \/ Rs485StartTimer(MainThread)
    \/ SerialWait(MainThread)
    \/ SerialAvailable(MainThread)
    \/ SerialReturn(MainThread)
    \/ \E t \in Threads : SpiCall(t, "can_send")
    \/ \E t \in Threads : FlashCall(t, "flash_write_buff")
    \/ GpioCall(Other, "relay_on", 1, "")
    \/ \E t \in Threads :
          \/ Acquire(t)
          \/ Release(t)
          \/ GpioBody(t)
          \/ GpioReturn(t)
          \/ BlinkLow(t)
          \/ BlinkHigh(t)
          \/ BlinkReturn(t)
          \/ PulseSleep(t)
          \/ PulseReturn(t)
          \/ Rs485Write(t)
          \/ SpiAcquire(t)
          \/ SpiBody(t)
          \/ SpiRelease(t)
          \/ FlashAcquire(t)
          \/ FlashBody(t)
          \/ FlashRelease(t)
          \/ NetInitTry(t)
          \/ NetInitRaise(t)
          \/ NetLink(t)
          \/ NetInfo(t)
          \/ NetConnectRaise(t)

SpecLocks == Init /\ [][NextLocks]_vars

----------------------------------------------------------------------------
(* The LED patterns beside a relay operation, an ADC read and another      *)
(* pattern.                                                                *)

NextBlink ==
    \/ \E op \in {"error_sys", "error_connect"} : BlinkCall(MainThread, op, "", 0)
    \/ \E t \in Threads, color \in {"B", "X"}, n \in 0..MaxPulses :
          BlinkCall(t, "error_custom", color, n)
    \/ GpioCall(Other, "relay_on", 1, "")
    \/ ReadCall(Other, "read_010", 1, TRUE, FALSE)
    \/ \E t \in Threads :
          \/ Step(t, RawCodes)
          \/ GpioBody(t)
          \/ GpioReturn(t)
          \/ BlinkLow(t)
          \/ BlinkHigh(t)
          \/ BlinkReturn(t)

SpecBlink == Init /\ [][NextBlink]_vars

\* the locks a call holds, by its trace: acquired and not released since
Held(tr) ==
    {l \in {LockId.I2C, LockId.SPI, LockId.FLASH} :
        \E i \in 1..Len(tr) :
            /\ tr[i] = Event("acquire", l)
            /\ \A j \in (i + 1)..Len(tr) : tr[j] # Event("release", l)}
\* the lock a thread is about to acquire, or waits for
Wants(t) ==
    CASE pc[t] = "acquire" -> {LockId.I2C}
      [] pc[t] = "acquire_spi" -> {LockId.SPI}
      [] pc[t] = "acquire_flash" -> {LockId.FLASH}
      [] OTHER -> {}
Taken(l) ==
    CASE l = LockId.I2C -> lockI2C
      [] l = LockId.SPI -> lockSPI
      [] OTHER -> lockFLASH

\* C26: no operation tries to acquire lockI2C, lockSPI or lockFLASH while
\* its thread holds any of the three; hence a thread that waits for a lock
\* waits for a thread that itself waits for none, unless the lock was left
\* held by an operation that failed inside its locked section.
C26_NoNestedAcquire ==
    \A t \in Threads :
        /\ Wants(t) # {} => Held(trace[t]) = {}
        /\ \A l \in Wants(t) :
              (Taken(l) /\ \E u \in Threads : l \in Held(trace[u]))
              => \E u \in Threads \ {t} : l \in Held(trace[u]) /\ Wants(u) = {}

\* net_connect runs error_connect, called after its attempts, and holds
\* lockI2C, while the other thread waits for lockI2C in relay_on
C26_Witness ==
    /\ call[MainThread].op = "net_connect"
    /\ pc[MainThread] = "high"
    /\ LockId.I2C \in Held(trace[MainThread])
    /\ call[Other].op = "relay_on"
    /\ pc[Other] = "acquire"

\* thread t runs an LED pattern: it is between the acquire and the release
\* of error_sys, error_connect or error_custom
InPattern(t) == call[t].op \in BlinkOps /\ pc[t] \in {"low", "high", "release"}

\* C28: error_sys, error_connect and error_custom hold lockI2C from before
\* the first cycle until after the last (5, 25 and n_pulses cycles, unless
\* a gpio call fails), so no ADC read and no other GPIO-expander operation
\* is inside a locked section meanwhile; and the lock is released when the
\* sequence ends, also when a gpio call inside it has failed.
C28_PatternHoldsLock ==
    [][\A t \in Threads :
          /\ InPattern(t) =>
                /\ lockI2C
                /\ \A u \in Threads \ {t} : ~InLockedSection(u) /\ ~InPattern(u)
          /\ (InPattern(t) /\ pc[t] = "release") =>
                \/ trace[t][Len(trace[t])].e = "except"
                \/ Len(Only(trace[t], "gpio")) = 2 * Cycles(call[t])
          /\ (InPattern(t) /\ ~InPattern(t)') =>
                /\ ~lockI2C'
                /\ pc[t] = "release"]_vars

\* error_connect is in its third cycle while a read of the other thread
\* waits for the lock
C28_Witness ==
    /\ call[MainThread].op = "error_connect"
    /\ pc[MainThread] = "high"
    /\ frame[MainThread].i = 2
    /\ call[Other].op = "read_010"
    /\ pc[Other] = "acquire"

\* what read_010 and read_420 compute from a sample, by the operation's
\* own conversion and range
Scaled010420(op, raw, electric_value, data, cfg, cv) ==
    LET edata == IF op = "read_010" THEN convert_010(data, cfg.VREF)
                 ELSE convert_420(data, cfg.VREF)
    IN  IF raw THEN Num(data)
        ELSE IF electric_value \/ ~IsNum(edata) THEN edata
        ELSE IF op = "read_010"
             THEN scale_010_420(edata, 0, 10, cv.Y_MIN, cv.Y_MAX, cv.OFFSET,
                                cv.UNDER_X, cv.OVER_X)
             ELSE scale_010_420(edata, 4, 20, cv.Y_MIN, cv.Y_MAX, cv.OFFSET,
                                cv.UNDER_X, cv.OVER_X)

\* C27: read_010(ch) and read_420(ch) use the same configuration record
\* adc_config[ch] and the same linear-parameter record adc_conversion[ch]:
\* whichever of the two is called, with or without raw, its adc.set goes to
\* the chip at address 73, mux channel ch + 3, with the gain and rate stored
\* in adc_config[ch] at that moment (the ones of the last
\* config_adc_010_420), and its result is computed with the VREF of
\* adc_config[ch] and the y_min, y_max, offset, under_x, over_x of
\* adc_conversion[ch] (the ones of the last set_conversion_010_420); with
\* raw it is the sample itself.
C27_SharedRecords ==
    [][\A t \in Threads :
          LET c == call[t] IN
          c.op \in {"read_010", "read_420"} =>
             /\ (pc[t] = "set" /\ pc'[t] = "get")
                => /\ frame'[t].adc = 73
                   /\ frame'[t].channel = c.ch + 3
                   /\ frame'[t].pga = adc_config[c.ch].PGA
                   /\ frame'[t].sps = adc_config[c.ch].SPS
             /\ (pc[t] = "convert" /\ pc'[t] = "idle")
                => result'[t] = Scaled010420(c.op, c.raw, c.electric_value,
                                             frame[t].data, adc_config[c.ch],
                                             adc_conversion[c.ch])]_vars

\* a read_420 that has its sample from chip 73, mux channel 4, taken with
\* the gain and rate a config_adc_010_420 call stored, and is about to scale
\* it with the parameters a set_conversion_010_420 call stored
C27_Witness ==
    /\ call[Reader].op = "read_420"
    /\ ~call[Reader].raw /\ ~call[Reader].electric_value
    /\ pc[Reader] = "convert"
    /\ frame[Reader].adc = 73 /\ frame[Reader].channel = 4
    /\ frame[Reader].pga = 0 /\ frame[Reader].sps = 0
    /\ adc_config[1].PGA = 0
    /\ adc_conversion[1].Y_MIN = Num(4)

====
